---- MODULE Spec2Model ----
(***************************************************************************)
(* A model of the torchtune excerpt: the grouped-query self-attention      *)
(* layer (llm/llama2/attention.py), the packed-sequence masking utilities  *)
(* (torchtune/modules/attention_utils.py), the tiktoken wrapper            *)
(* (torchtune/data/tokenizers/_tiktoken.py) and the prompt templates       *)
(* (torchtune/data/_prompt_templates.py).                                  *)
(*                                                                         *)
(* The components share no state, so each has its own specification over   *)
(* its own variables; the variables of the other components stay idle.     *)
(***************************************************************************)
EXTENDS Integers, Sequences, FiniteSets, TLC

VARIABLES
    ctor,        \* attention: outcome of LlamaSelfAttention.__init__
    layer,       \* attention: the constructed layer's fields
    fwd,         \* attention: outcome of the last LlamaSelfAttention.forward
    supports_flex, \* masking: the module-level flag _SUPPORTS_FLEX_ATTENTION
    seq_lens,    \* masking: the batch of per-sample sub-sequence lengths
    document_ids, \* masking: result of _get_document_ids_from_seq_lens
    mask,        \* masking: the result of the last mask construction
    text,        \* tokenizer: the text given to encode
    enc,         \* tokenizer: result of encode and the calls it made
    dec,         \* tokenizer: result of decode(encode(text))
    sample,      \* chat templates: the input conversation
    formatted,   \* chat templates: the result of format
    record,      \* alpaca: the input record
    column_map,  \* alpaca: the column_map argument
    prompt,      \* alpaca: the result of format
    collate_in,  \* collation: the function called and its arguments
    collated,    \* collation: the result of the call
    fs,          \* fixtures: the file system under the parent of the cwd
    proc,        \* fixtures: each generator process's script and position
    overlapped,  \* fixtures: whether a process's run overlapped another's
    split_in,    \* splitter: the string and threshold given
    pieces,      \* splitter: the slices _split_long_repetitions yielded
    attention_fn, \* dispatch: the callable _sdpa_or_flex_attention returned
    call_args,   \* dispatch: the arguments the callable is called with
    kernel       \* dispatch: the kernel the callable invoked, and with what

vars == <<ctor, layer, fwd, supports_flex, seq_lens, document_ids, mask, text, enc, dec,
          sample, formatted, record, column_map, prompt, collate_in, collated,
          fs, proc, overlapped, split_in, pieces, attention_fn, call_args, kernel>>

attn_vars == <<ctor, layer, fwd>>
mask_vars == <<supports_flex, seq_lens, document_ids, mask>>
tok_vars == <<text, enc, dec>>
chat_vars == <<sample, formatted>>
alpaca_vars == <<record, column_map, prompt>>
collate_vars == <<collate_in, collated>>
fixture_vars == <<fs, proc, overlapped>>
split_vars == <<split_in, pieces>>
dispatch_vars == <<attention_fn, call_args, kernel>>

\* The value of a variable whose component has not run.
Idle == "idle"

(***************************************************************************)
(* Small helpers over sequences.                                           *)
(***************************************************************************)
RECURSIVE Prod(_)
Prod(s) == IF s = <<>> THEN 1 ELSE Head(s) * Prod(Tail(s))

RECURSIVE SumSeq(_)
SumSeq(s) == IF s = <<>> THEN 0 ELSE Head(s) + SumSeq(Tail(s))

RECURSIVE Concat(_)
Concat(ss) == IF ss = <<>> THEN <<>> ELSE Head(ss) \o Concat(Tail(ss))

(***************************************************************************)
(* Tensors: a shape and a function from 0-based index tuples to entries.   *)
(* Storage is row-major, as torch's contiguous layout.                     *)
(***************************************************************************)
RECURSIVE Flat(_, _)
\* row-major offset of index tuple idx in a tensor of the given shape
Flat(shape, idx) ==
    IF shape = <<>> THEN 0
    ELSE idx[1] * Prod(Tail(shape)) + Flat(Tail(shape), Tail(idx))

RECURSIVE Unflat(_, _)
\* the index tuple at row-major offset n
Unflat(shape, n) ==
    IF shape = <<>> THEN <<>>
    ELSE <<n \div Prod(Tail(shape))>> \o Unflat(Tail(shape), n % Prod(Tail(shape)))

Idx3(shape) ==
    {<<a, b, c>> : a \in 0..shape[1]-1, b \in 0..shape[2]-1, c \in 0..shape[3]-1}

Idx4(shape) ==
    {<<a, b, c, d>> : a \in 0..shape[1]-1, b \in 0..shape[2]-1,
                      c \in 0..shape[3]-1, d \in 0..shape[4]-1}

Idx5(shape) ==
    {<<a, b, c, d, e>> : a \in 0..shape[1]-1, b \in 0..shape[2]-1,
                         c \in 0..shape[3]-1, d \in 0..shape[4]-1,
                         e \in 0..shape[5]-1}

Numel(t) == Prod(t.shape)

EmptyTensor == [shape |-> <<0>>, at |-> <<>>]

(***************************************************************************)
(* llm/llama2/attention.py: LlamaSelfAttention                             *)
(***************************************************************************)
\* Bounds on the constructor's and forward's arguments.
MaxEmbedDim == 6
MaxHeads == 4
MaxSeqLen == 2
MaxBatch == 1

\* Optional[int]: None is the empty sequence, a given value n is <<n>>.
None == <<>>
Some(n) == <<n>>

\* Python truthiness of an Optional[int]: None and 0 are falsy.
Truthy(o) == o # None /\ o[1] # 0

\* attn_dropout is a float; it is modelled in tenths (10 is 1.0), with values
\* below, inside, on the ends of and above the interval [0.0, 1.0].
DropoutVals == {-1, 0, 5, 10, 11}

\* KvHeadsInvalid with the operands of % exchanged
KvHeadsInvalid_swapped(num_heads, num_kv_heads) ==
    Truthy(num_kv_heads) /\ num_kv_heads[1] % num_heads # 0

\* line 76: if num_kv_heads and num_heads % num_kv_heads != 0
KvHeadsInvalid(num_heads, num_kv_heads) ==
    Truthy(num_kv_heads) /\ num_heads % num_kv_heads[1] # 0

\* line 82: if embed_dim % num_heads != 0
EmbedDimInvalid(embed_dim, num_heads) == embed_dim % num_heads # 0

\* line 88: if attn_dropout < 0 or attn_dropout > 1
DropoutInvalid(attn_dropout) == attn_dropout < 0 \/ attn_dropout > 10

NoArgs == [embed_dim |-> 0, num_heads |-> 0, max_seq_len |-> 0,
           num_kv_heads |-> None, attn_dropout |-> 0]

NoLayer == [num_heads |-> 0, num_kv_heads |-> 0, embed_dim |-> 0,
            attn_dropout |-> 0, head_dim |-> 0, max_seq_len |-> 0,
            qkv_dim |-> 0, training |-> FALSE]

\* NewLayer keeping every num_kv_heads that is given, 0 included
NewLayer_zeroKept(a) ==
    LET n_kv == IF a.num_kv_heads # None THEN a.num_kv_heads[1] ELSE a.num_heads
        h_d == a.embed_dim \div a.num_heads
    IN [num_heads |-> a.num_heads,
        num_kv_heads |-> n_kv,
        embed_dim |-> a.embed_dim,
        attn_dropout |-> a.attn_dropout,
        head_dim |-> h_d,
        max_seq_len |-> a.max_seq_len,
        qkv_dim |-> (a.num_heads + 2 * n_kv) * h_d,
        training |-> TRUE]

\* lines 91-101: the fields of a layer whose arguments passed the checks.
\* nn.Module starts in training mode.
NewLayer(a) ==
    LET n_kv == IF Truthy(a.num_kv_heads) THEN a.num_kv_heads[1] ELSE a.num_heads
        h_d == a.embed_dim \div a.num_heads
    IN [num_heads |-> a.num_heads,
        num_kv_heads |-> n_kv,
        embed_dim |-> a.embed_dim,
        attn_dropout |-> a.attn_dropout,
        head_dim |-> h_d,
        max_seq_len |-> a.max_seq_len,
        qkv_dim |-> (a.num_heads + 2 * n_kv) * h_d,
        training |-> TRUE]

\* LlamaSelfAttention.__init__
Construct(embed_dim, num_heads, max_seq_len, num_kv_heads, attn_dropout) ==
    /\ ctor.status = "unbuilt"
    /\ LET a == [embed_dim |-> embed_dim, num_heads |-> num_heads,
                 max_seq_len |-> max_seq_len, num_kv_heads |-> num_kv_heads,
                 attn_dropout |-> attn_dropout]
       IN IF \/ KvHeadsInvalid(num_heads, num_kv_heads)
             \/ EmbedDimInvalid(embed_dim, num_heads)
             \/ DropoutInvalid(attn_dropout)
          THEN /\ ctor' = [status |-> "ValueError", args |-> a]
               /\ layer' = NoLayer
          ELSE /\ ctor' = [status |-> "ok", args |-> a]
               /\ layer' = NewLayer(a)
    /\ UNCHANGED fwd

\* nn.Module.train(mode) / eval(): sets self.training, read at line 196.
SetTraining(mode) ==
    /\ ctor.status = "ok"
    /\ layer.training # mode
    /\ layer' = [layer EXCEPT !.training = mode]
    /\ UNCHANGED <<ctor, fwd>>

\* line 148: qkv = self.qkv_proj(x), shape [b, s, qkv_d]. The projection's
\* weights are free, so every entry of the result is an independent value:
\* entry (b, s, j) is represented by its own coordinates.
QkvProj(bsz, seq_len, qkv_dim) ==
    LET sh == <<bsz, seq_len, qkv_dim>>
    IN [shape |-> sh,
        at |-> [i \in Idx3(sh) |-> [b |-> i[1], s |-> i[2], j |-> i[3]]]]

\* line 159: qkv.view(bsz, seq_len, n_kv, total_qkv, h_d)
View5(t, sh) ==
    [shape |-> sh,
     at |-> [i \in Idx5(sh) |-> t.at[Unflat(t.shape, Flat(sh, i))]]]

\* line 165: one part of qkv.split(sizes, dim=3): length entries from start
Narrow3(t, start, length) ==
    LET sh == [t.shape EXCEPT ![4] = length]
    IN [shape |-> sh,
        at |-> [i \in Idx5(sh) |-> t.at[[i EXCEPT ![4] = i[4] + start]]]]

\* lines 170-171: t.expand(sizes): a size-1 axis is repeated, without a copy
Expand(t, sh) ==
    [shape |-> sh,
     at |-> [i \in Idx5(sh) |->
                t.at[[d \in 1..5 |-> IF t.shape[d] = 1 THEN 0 ELSE i[d]]]]]

\* lines 176-178: t.reshape(bsz, seq_len, -1, h_d); the -1 axis is inferred
Reshape4(t, bsz, seq_len, h_d) ==
    LET sh == <<bsz, seq_len, Numel(t) \div (bsz * seq_len * h_d), h_d>>
    IN [shape |-> sh,
        at |-> [i \in Idx4(sh) |-> t.at[Unflat(t.shape, Flat(sh, i))]]]

\* torch refuses to infer a -1 axis for a tensor without elements
ReshapeAmbiguous(t) == Numel(t) = 0

\* lines 184-186: t.transpose(1, 2), [b, s, n_h, h_d] -> [b, n_h, s, h_d]
Transpose12(t) ==
    LET sh == <<t.shape[1], t.shape[3], t.shape[2], t.shape[4]>>
    IN [shape |-> sh,
        at |-> [i \in Idx4(sh) |-> t.at[<<i[1], i[3], i[2], i[4]>>]]]

\* lines 180-181: RotaryPositionalEmbeddings.forward on [b, s, n_h, h_d]: same
\* shape, each head's vector rotated as a function of its sequence position.
\* A rotated entry records the position and the entry it was computed from
\* (the partner entries of the same head's vector are not recorded).
Rope(t) ==
    [shape |-> t.shape,
     at |-> [i \in Idx4(t.shape) |-> [pos |-> i[2], x |-> t.at[i]]]]

\* SeqLenExceeded with >= for >
SeqLenExceeded_ge(seq_len, max_seq_len) == seq_len >= max_seq_len

\* line 141: if seq_len > self.max_seq_len
SeqLenExceeded(seq_len, max_seq_len) == seq_len > max_seq_len

NoFwd == [status |-> "none", bsz |-> 0, seq_len |-> 0, calls |-> <<>>,
          qkv |-> EmptyTensor, q |-> EmptyTensor, k |-> EmptyTensor,
          v |-> EmptyTensor, dropout_p |-> 0, is_causal |-> FALSE]

\* lines 138-202: the outcome of forward on an input of shape [bsz, seq_len, d]
ForwardResult(L, bsz, seq_len) ==
    IF SeqLenExceeded(seq_len, L.max_seq_len)
    THEN [NoFwd EXCEPT !.status = "ValueError", !.bsz = bsz, !.seq_len = seq_len]
    ELSE
    LET qkv == QkvProj(bsz, seq_len, L.qkv_dim)
        q_per_kv == L.num_heads \div L.num_kv_heads
        total_qkv == q_per_kv + 2
        qkv5 == View5(qkv, <<bsz, seq_len, L.num_kv_heads, total_qkv, L.head_dim>>)
        q0 == Narrow3(qkv5, 0, q_per_kv)
        k0 == Narrow3(qkv5, q_per_kv, 1)
        v0 == Narrow3(qkv5, q_per_kv + 1, 1)
        esh == <<bsz, seq_len, L.num_kv_heads, q_per_kv, L.head_dim>>
        k1 == IF L.num_heads # L.num_kv_heads THEN Expand(k0, esh) ELSE k0
        v1 == IF L.num_heads # L.num_kv_heads THEN Expand(v0, esh) ELSE v0
        q2 == Reshape4(q0, bsz, seq_len, L.head_dim)
        k2 == Reshape4(k1, bsz, seq_len, L.head_dim)
        \* line 178: v = k.reshape(bsz, seq_len, -1, self.head_dim)
        v2 == Reshape4(k2, bsz, seq_len, L.head_dim)
    IN IF ReshapeAmbiguous(q0)
       THEN [NoFwd EXCEPT !.status = "RuntimeError", !.bsz = bsz,
                          !.seq_len = seq_len, !.calls = <<"qkv_proj">>,
                          !.qkv = qkv]
       ELSE [status |-> "ok", bsz |-> bsz, seq_len |-> seq_len,
             calls |-> <<"qkv_proj", "rope", "rope",
                         "scaled_dot_product_attention", "output_proj">>,
             qkv |-> qkv,
             q |-> Transpose12(Rope(q2)),
             k |-> Transpose12(Rope(k2)),
             v |-> Transpose12(v2),
             dropout_p |-> IF L.training THEN L.attn_dropout ELSE 0,
             is_causal |-> TRUE]

\* LlamaSelfAttention.forward
Forward(bsz, seq_len) ==
    /\ ctor.status = "ok"
    /\ fwd' = ForwardResult(layer, bsz, seq_len)
    /\ UNCHANGED <<ctor, layer>>

InitAttn ==
    /\ ctor = [status |-> "unbuilt", args |-> NoArgs]
    /\ layer = NoLayer
    /\ fwd = NoFwd
    /\ supports_flex = Idle /\ seq_lens = Idle
    /\ document_ids = Idle /\ mask = Idle
    /\ text = Idle /\ enc = Idle /\ dec = Idle
    /\ sample = Idle /\ formatted = Idle
    /\ record = Idle /\ column_map = Idle /\ prompt = Idle
    /\ collate_in = Idle /\ collated = Idle
    /\ fs = Idle /\ proc = Idle /\ overlapped = Idle
    /\ split_in = Idle /\ pieces = Idle
    /\ attention_fn = Idle /\ call_args = Idle /\ kernel = Idle

NextAttn ==
    \/ /\ ctor.status = "unbuilt"
       /\ \E embed_dim \in 1..MaxEmbedDim, num_heads \in 1..MaxHeads,
             max_seq_len \in 0..MaxSeqLen,
             num_kv_heads \in {None} \cup {Some(n) : n \in 0..MaxHeads},
             attn_dropout \in DropoutVals :
          /\ Construct(embed_dim, num_heads, max_seq_len, num_kv_heads, attn_dropout)
          /\ UNCHANGED <<mask_vars, tok_vars, chat_vars, alpaca_vars, collate_vars, fixture_vars,
                    split_vars, dispatch_vars>>
    \/ \E mode \in BOOLEAN :
          /\ SetTraining(mode)
          /\ UNCHANGED <<mask_vars, tok_vars, chat_vars, alpaca_vars, collate_vars, fixture_vars,
                    split_vars, dispatch_vars>>
    \/ \E bsz \in 1..MaxBatch, seq_len \in 0..MaxSeqLen + 1 :
          /\ Forward(bsz, seq_len)
          /\ UNCHANGED <<mask_vars, tok_vars, chat_vars, alpaca_vars, collate_vars, fixture_vars,
                    split_vars, dispatch_vars>>

SpecAttn == InitAttn /\ [][NextAttn]_vars

(***************************************************************************)
(* Claims about the attention layer, checked under SpecAttn.               *)
(***************************************************************************)
\* m is evenly divisible by n: m is a whole multiple of n
EvenlyDivisible(m, n) == \E q \in 0..m : m = q * n

\* the coordinates, in the projection, of the value slice's entry that the
\* split assigns to query head h at feature d
ValueSliceEntry(L, b, s, h, d) ==
    LET q_per_kv == L.num_heads \div L.num_kv_heads
        g == h \div q_per_kv
    IN [b |-> b, s |-> s, j |-> (g * (q_per_kv + 2) + q_per_kv + 1) * L.head_dim + d]

\* C1: the value operand handed to scaled-dot-product attention has shape
\* [b, n_h, s, h_d] and its entry for head h, position s, feature d is the
\* entry of the value slice of h's key/value group (never of the key slice).
C1_ValueFromValueSlice ==
    fwd.status = "ok" =>
        /\ fwd.v.shape = <<fwd.bsz, layer.num_heads, fwd.seq_len, layer.head_dim>>
        /\ \A i \in Idx4(fwd.v.shape) :
              fwd.v.at[i] = ValueSliceEntry(layer, i[1], i[3], i[2], i[4])

\* C2 as stated: construction fails with a ValueError exactly when
\* num_kv_heads is given and num_heads is not evenly divisible by it, or
\* embed_dim is not evenly divisible by num_heads, or attn_dropout lies
\* outside [0.0, 1.0].
C2_AsStated ==
    ctor.status # "unbuilt" =>
        LET a == ctor.args
        IN (ctor.status = "ValueError") <=>
              \/ a.num_kv_heads # None
                 /\ ~EvenlyDivisible(a.num_heads, a.num_kv_heads[1])
              \/ ~EvenlyDivisible(a.embed_dim, a.num_heads)
              \/ a.attn_dropout \notin 0..10

\* C2 amended: as C2_AsStated, but the divisibility by num_kv_heads is only
\* required when num_kv_heads is given and is not 0; construction ends either
\* in a ValueError or in a built layer.
C2_Construction ==
    ctor.status # "unbuilt" =>
        LET a == ctor.args
        IN /\ ctor.status \in {"ok", "ValueError"}
           /\ (ctor.status = "ValueError") <=>
                 \/ a.num_kv_heads # None /\ a.num_kv_heads # Some(0)
                    /\ ~EvenlyDivisible(a.num_heads, a.num_kv_heads[1])
                 \/ ~EvenlyDivisible(a.embed_dim, a.num_heads)
                 \/ a.attn_dropout \notin 0..10

\* C2 witness: num_heads = 4 with num_kv_heads = 3 is rejected although the
\* other arguments are valid.
C2_Witness ==
    /\ ctor.status = "ValueError"
    /\ ctor.args.num_heads = 4 /\ ctor.args.num_kv_heads = Some(3)
    /\ ctor.args.embed_dim = 4 /\ ctor.args.attn_dropout = 0

\* C3: forward fails with a ValueError exactly when the input's sequence
\* length exceeds max_seq_len, and then nothing has been projected or attended.
C3_SeqLenCheck ==
    fwd.status # "none" =>
        /\ (fwd.status = "ValueError") <=> (fwd.seq_len > layer.max_seq_len)
        /\ fwd.status = "ValueError" => fwd.calls = <<>>
        /\ fwd.seq_len \in 0..layer.max_seq_len => fwd.calls # <<>>

\* C3 witness: an input one position longer than max_seq_len was rejected.
C3_Witness ==
    /\ fwd.status = "ValueError"
    /\ fwd.seq_len = layer.max_seq_len + 1
    /\ fwd.calls = <<>>

\* C26: construction with num_kv_heads = 0 has the outcome of construction
\* with num_kv_heads absent: the divisibility check by num_kv_heads is
\* skipped, a ValueError depends on embed_dim, num_heads and attn_dropout
\* only, and the layer built has num_kv_heads = num_heads; every layer built
\* has num_kv_heads >= 1, a divisor of num_heads, with
\* num_kv_heads * (num_heads / num_kv_heads + 2) * head_dim = qkv_dim.
C26_ZeroKvHeads ==
    ctor.status # "unbuilt" =>
        LET a == ctor.args
        IN /\ a.num_kv_heads \in {None, Some(0)} =>
                 /\ ctor.status \in {"ok", "ValueError"}
                 /\ (ctor.status = "ValueError") <=>
                       \/ ~EvenlyDivisible(a.embed_dim, a.num_heads)
                       \/ a.attn_dropout \notin 0..10
                 /\ ctor.status = "ok" =>
                       /\ layer.num_heads = a.num_heads
                       /\ layer.num_kv_heads = a.num_heads
                       /\ layer.embed_dim = a.embed_dim
                       /\ layer.attn_dropout = a.attn_dropout
                       /\ layer.head_dim * a.num_heads = a.embed_dim
                       /\ layer.max_seq_len = a.max_seq_len
                       /\ layer.qkv_dim = 3 * a.embed_dim
           /\ ctor.status = "ok" =>
                 /\ layer.num_kv_heads >= 1
                 /\ EvenlyDivisible(layer.num_heads, layer.num_kv_heads)
                 /\ layer.num_kv_heads
                       * ((layer.num_heads \div layer.num_kv_heads) + 2)
                       * layer.head_dim = layer.qkv_dim
                 /\ fwd.status = "ok" =>
                       fwd.qkv.shape = <<fwd.bsz, fwd.seq_len, layer.qkv_dim>>

\* C26 witness: a layer built with num_kv_heads = 0 is a multi-head layer,
\* and its forward ran.
C26_Witness ==
    /\ ctor.status = "ok"
    /\ ctor.args.num_kv_heads = Some(0)
    /\ ctor.args.num_heads = 2 /\ ctor.args.embed_dim = 4
    /\ layer.num_kv_heads = 2 /\ layer.qkv_dim = 12
    /\ fwd.status = "ok"

(***************************************************************************)
(* torchtune/modules/attention_utils.py: masks for packed sequences        *)
(***************************************************************************)
\* Bounds on seq_lens, a tensor of shape (batch_size, n): the batch size, n,
\* and the pack length that every row sums to.
MaxPackBatch == 2
MaxDocs == 2
MaxPackLen == 3

\* torch.full((n,), v): n copies of v
Full(n, v) == [p \in 1..n |-> v]

\* lines 54-59: torch.cat of torch.full((seq_len,), i) over enumerate(row),
\* for the entries of row after its first i
RECURSIVE CatFull(_, _)
CatFull(row, i) ==
    IF row = <<>> THEN <<>>
    ELSE Full(Head(row), i) \o CatFull(Tail(row), i + 1)

\* GetDocumentIds numbering the sub-sequences from 1
GetDocumentIds_fromOne(sl) == [b \in 1..Len(sl) |-> CatFull(sl[b], 1)]

\* lines 49-62: _get_document_ids_from_seq_lens; row b (from 1) of the result
\* holds the document ids of sample b, position p (from 0) at index p + 1
GetDocumentIds(sl) == [b \in 1..Len(sl) |-> CatFull(sl[b], 0)]

\* A square boolean matrix: its size and its entries at 0-based <<row, col>>.
Square(n) == (0..n-1) \X (0..n-1)

\* line 92: torch.ones(seq_len, seq_len, dtype=torch.bool)
Ones(n) == [n |-> n, at |-> [rc \in Square(n) |-> TRUE]]

\* Tril keeping the upper triangle instead of the lower one
Tril_upper(m) ==
    [n |-> m.n, at |-> [rc \in Square(m.n) |-> rc[2] >= rc[1] /\ m.at[rc]]]

\* line 91: torch.tril: the entries above the diagonal are cleared
Tril(m) ==
    [n |-> m.n, at |-> [rc \in Square(m.n) |-> rc[2] <= rc[1] /\ m.at[rc]]]

\* lines 90-95: the lower-triangular block of every entry of the row
RECURSIVE BlockAttnMasks(_)
BlockAttnMasks(row) ==
    IF row = <<>> THEN <<>>
    ELSE <<Tril(Ones(Head(row)))>> \o BlockAttnMasks(Tail(row))

\* line 97: torch.block_diag: the blocks along the diagonal, in order, and
\* False everywhere else
RECURSIVE BlockDiag(_)
BlockDiag(blocks) ==
    IF blocks = <<>> THEN [n |-> 0, at |-> [rc \in Square(0) |-> FALSE]]
    ELSE LET first == Head(blocks)
             rest == BlockDiag(Tail(blocks))
             k == first.n
         IN [n |-> k + rest.n,
             at |-> [rc \in Square(k + rest.n) |->
                        IF rc[1] < k /\ rc[2] < k THEN first.at[rc]
                        ELSE IF rc[1] >= k /\ rc[2] >= k
                             THEN rest.at[<<rc[1] - k, rc[2] - k>>]
                             ELSE FALSE]]

\* lines 87-98: create_block_causal_mask: a dense tensor (batch, L, L)
CreateBlockCausalMask(sl) ==
    LET per == [b \in 1..Len(sl) |-> BlockDiag(BlockAttnMasks(sl[b]))]
        L == per[1].n
    IN [type |-> "Tensor",
        shape |-> <<Len(sl), L, L>>,
        at |-> [i \in Idx3(<<Len(sl), L, L>>) |-> per[i[1] + 1].at[<<i[2], i[3]>>]]]

\* MaskMod with a strict causal comparison
MaskMod_strict(ids, b, h, q_idx, kv_idx) ==
    q_idx > kv_idx /\ ids[b + 1][q_idx + 1] = ids[b + 1][kv_idx + 1]

\* lines 123-126: mask_mod(b, h, q_idx, kv_idx) over the document ids
MaskMod(ids, b, h, q_idx, kv_idx) ==
    LET causal_mask == q_idx >= kv_idx
        document_mask == ids[b + 1][q_idx + 1] = ids[b + 1][kv_idx + 1]
    IN causal_mask /\ document_mask

\* lines 128-134: create_block_mask(mask_mod, B, None, Q_LEN, KV_LEN): the
\* compressed mask carries the predicate's value at every (b, q_idx, kv_idx)
CreateBlockMaskFlex(ids, batch_size, q_len, kv_len) ==
    [type |-> "BlockMask",
     shape |-> <<batch_size, q_len, kv_len>>,
     at |-> [i \in Idx3(<<batch_size, q_len, kv_len>>) |->
                MaskMod(ids, i[1], 0, i[2], i[3])]]

\* PackedBlockCausalMask with the test of the flag negated
PackedBlockCausalMask_negated(flag, sl) ==
    IF ~flag
    THEN LET ids == GetDocumentIds(sl)
             batch_size == Len(ids)
             max_seq_len == Len(ids[1])
         IN CreateBlockMaskFlex(ids, batch_size, max_seq_len, max_seq_len)
    ELSE CreateBlockCausalMask(sl)

\* lines 118-136: packed_block_causal_mask
PackedBlockCausalMask(flag, sl) ==
    IF flag
    THEN LET ids == GetDocumentIds(sl)
             batch_size == Len(ids)
             max_seq_len == Len(ids[1])
         IN CreateBlockMaskFlex(ids, batch_size, max_seq_len, max_seq_len)
    ELSE CreateBlockCausalMask(sl)

\* no document ids computed yet (a computed batch has at least one row)
NoIds == <<>>

NoMask == [call |-> "none", type |-> "none", shape |-> <<0, 0, 0>>, at |-> <<>>]

Called(name, m) ==
    [call |-> name, type |-> m.type, shape |-> m.shape, at |-> m.at]

\* a call of _get_document_ids_from_seq_lens(seq_lens)
CallGetDocumentIds ==
    /\ document_ids' = GetDocumentIds(seq_lens)
    /\ UNCHANGED <<supports_flex, seq_lens, mask>>

\* a call of create_block_causal_mask(seq_lens)
CallCreateBlockCausalMask ==
    /\ mask' = Called("create_block_causal_mask", CreateBlockCausalMask(seq_lens))
    /\ UNCHANGED <<supports_flex, seq_lens, document_ids>>

\* a call of packed_block_causal_mask(seq_lens)
CallPackedBlockCausalMask ==
    /\ mask' = Called("packed_block_causal_mask",
                      PackedBlockCausalMask(supports_flex, seq_lens))
    /\ UNCHANGED <<supports_flex, seq_lens, document_ids>>

\* the rows of n lengths that sum to total
RECURSIVE Rows(_, _)
Rows(n, total) ==
    IF n = 0 THEN (IF total = 0 THEN {<<>>} ELSE {})
    ELSE UNION {{<<first>> \o r : r \in Rows(n - 1, total - first)} :
                first \in 0..total}

\* the seq_lens tensors: batch_size rows of n lengths, each row summing to
\* the pack length
SeqLensInputs ==
    UNION {[1..batch_size -> Rows(n, L)] :
           batch_size \in 1..MaxPackBatch, n \in 1..MaxDocs, L \in 0..MaxPackLen}

InitMask ==
    /\ supports_flex \in BOOLEAN
    /\ seq_lens \in SeqLensInputs
    /\ document_ids = NoIds /\ mask = NoMask
    /\ ctor = Idle /\ layer = Idle /\ fwd = Idle
    /\ text = Idle /\ enc = Idle /\ dec = Idle
    /\ sample = Idle /\ formatted = Idle
    /\ record = Idle /\ column_map = Idle /\ prompt = Idle
    /\ collate_in = Idle /\ collated = Idle
    /\ fs = Idle /\ proc = Idle /\ overlapped = Idle
    /\ split_in = Idle /\ pieces = Idle
    /\ attention_fn = Idle /\ call_args = Idle /\ kernel = Idle

NextMask ==
    \/ CallGetDocumentIds
       /\ UNCHANGED <<attn_vars, tok_vars, chat_vars, alpaca_vars, collate_vars, fixture_vars,
                    split_vars, dispatch_vars>>
    \/ CallCreateBlockCausalMask
       /\ UNCHANGED <<attn_vars, tok_vars, chat_vars, alpaca_vars, collate_vars, fixture_vars,
                    split_vars, dispatch_vars>>
    \/ CallPackedBlockCausalMask
       /\ UNCHANGED <<attn_vars, tok_vars, chat_vars, alpaca_vars, collate_vars, fixture_vars,
                    split_vars, dispatch_vars>>

SpecMask == InitMask /\ [][NextMask]_vars

(***************************************************************************)
(* Claims about the masks, checked under SpecMask.                         *)
(***************************************************************************)
\* C4: the dense mask of create_block_causal_mask has shape (batch, L, L), L
\* the pack length, and its entry (b, q, k) is the value of the mask_mod
\* predicate of packed_block_causal_mask: k <= q and the document ids of q
\* and k in sample b are equal.
C4_DenseEqualsMaskMod ==
    mask.call = "create_block_causal_mask" =>
        LET ids == GetDocumentIds(seq_lens)
            L == SumSeq(seq_lens[1])
        IN /\ mask.shape = <<Len(seq_lens), L, L>>
           /\ DOMAIN mask.at = Idx3(mask.shape)
           /\ \A i \in Idx3(mask.shape) :
                 mask.at[i] = MaskMod(ids, i[1], 0, i[2], i[3])

\* C4 witness: a dense mask of a second sample with two documents, true
\* inside a document below the diagonal, false across documents.
C4_Witness ==
    /\ mask.call = "create_block_causal_mask"
    /\ Len(seq_lens) = 2
    /\ seq_lens[2] = <<2, 1>>
    /\ mask.at[<<1, 1, 0>>] /\ ~mask.at[<<1, 0, 1>>]
    /\ ~mask.at[<<1, 2, 1>>] /\ mask.at[<<1, 2, 2>>]

\* the 0-based index of the sub-sequence of row that holds position p (from
\* 0): the lengths before it sum to at most p, those up to it to more
SubSequenceOf(row, p) ==
    CHOOSE j \in 0..Len(row) - 1 :
        /\ SumSeq(SubSeq(row, 1, j)) <= p
        /\ p < SumSeq(SubSeq(row, 1, j + 1))

\* C22: _get_document_ids_from_seq_lens returns one vector per sample, as
\* long as the sum of the sample's seq_lens, whose position i holds the
\* 0-based index of the sub-sequence containing i; the vector is
\* non-decreasing, starts at the index of the first non-empty sub-sequence,
\* and index j occurs exactly seq_lens[j] times.
C22_DocumentIds ==
    document_ids # NoIds =>
        /\ Len(document_ids) = Len(seq_lens)
        /\ \A b \in 1..Len(seq_lens) :
              LET row == seq_lens[b]
                  ids == document_ids[b]
              IN /\ Len(ids) = SumSeq(row)
                 /\ \A p \in 1..Len(ids) : ids[p] = SubSequenceOf(row, p - 1)
                 /\ \A p \in 1..Len(ids) - 1 : ids[p] <= ids[p + 1]
                 /\ Len(ids) > 0 =>
                       /\ row[ids[1] + 1] > 0
                       /\ \A j \in 0..ids[1] - 1 : row[j + 1] = 0
                 /\ \A j \in 0..Len(row) - 1 :
                       Cardinality({p \in 1..Len(ids) : ids[p] = j}) = row[j + 1]

\* C22 witness: the ids of a batch of two samples, the second of which
\* begins with an empty sub-sequence.
C22_Witness ==
    /\ Len(seq_lens) = 2
    /\ seq_lens[1] = <<2, 1>> /\ seq_lens[2] = <<0, 3>>
    /\ document_ids = <<(<<0, 0, 1>>), (<<1, 1, 1>>)>>

\* C23: in every block-causal mask built from seq_lens that sum to the pack
\* length (zero lengths included), dense or compressed, the diagonal entry
\* (b, q, q) is true, so every row has a true entry.
C23_DiagonalAttends ==
    mask.call \in {"create_block_causal_mask", "packed_block_causal_mask"} =>
        /\ mask.shape = <<Len(seq_lens), SumSeq(seq_lens[1]), SumSeq(seq_lens[1])>>
        /\ \A b \in 0..mask.shape[1] - 1, q \in 0..mask.shape[2] - 1 :
              /\ mask.at[<<b, q, q>>]
              /\ \E kv \in 0..mask.shape[3] - 1 : mask.at[<<b, q, kv>>]

\* C23 witness: a compressed mask of a sample whose first sub-sequence is
\* empty; the last position attends to itself.
C23_Witness ==
    /\ mask.call = "packed_block_causal_mask"
    /\ mask.type = "BlockMask"
    /\ seq_lens[1] = <<0, 3>>
    /\ mask.at[<<0, 2, 2>>] /\ mask.at[<<0, 0, 0>>]

(***************************************************************************)
(* torchtune/data/tokenizers/_tiktoken.py: TikTokenEncoding                *)
(***************************************************************************)
\* A text is a sequence of characters. The alphabet has two non-whitespace
\* characters and one whitespace character.
Alphabet == {"a", "b", " "}

\* str.isspace() of one character
IsSpace(c) == c = " "

\* Bound on the length of the text given to encode.
MaxTextLen == 7

\* lines 14-15. The source's values are 400_000 and 25_000; the model scales
\* both down so that texts within MaxTextLen span several chunks and hold
\* runs longer than the threshold.
MAX_ENCODE_CHARS == 5
MAX_NO_WHITESPACE_CHARS == 2

Min(a, b) == IF a <= b THEN a ELSE b

\* Python's s[a:b] for 0 <= a, with b clamped to len(s)
Slice(s, a, b) == SubSeq(s, a + 1, Min(b, Len(s)))

\* SplitLoop with the next slice starting after the character at the cut
RECURSIVE SplitLoop_skip(_, _, _, _, _, _, _)
SplitLoop_skip(s, max_consecutive_slice_len, i, current_slice_len, current_slice_is_space, slice_start, out) ==
    IF i >= Len(s)
    THEN Append(out, Slice(s, slice_start, Len(s)))
    ELSE LET is_now_space == IsSpace(s[i + 1])
         IN IF current_slice_is_space # is_now_space
            THEN SplitLoop_skip(s, max_consecutive_slice_len, i + 1, 1,
                                is_now_space, slice_start, out)
            ELSE IF current_slice_len + 1 > max_consecutive_slice_len
                 THEN SplitLoop_skip(s, max_consecutive_slice_len, i + 1, 1,
                                     current_slice_is_space, i + 1,
                                     Append(out, Slice(s, slice_start, i)))
                 ELSE SplitLoop_skip(s, max_consecutive_slice_len, i + 1,
                                     current_slice_len + 1, current_slice_is_space,
                                     slice_start, out)

\* lines 65-77: the loop of _split_long_repetitions from index i (0-based) on,
\* out holding the slices yielded so far
RECURSIVE SplitLoop(_, _, _, _, _, _, _)
SplitLoop(s, max_consecutive_slice_len, i, current_slice_len, current_slice_is_space, slice_start, out) ==
    IF i >= Len(s)
    THEN Append(out, Slice(s, slice_start, Len(s)))
    ELSE LET is_now_space == IsSpace(s[i + 1])
         IN IF current_slice_is_space # is_now_space
            THEN SplitLoop(s, max_consecutive_slice_len, i + 1, 1,
                           is_now_space, slice_start, out)
            ELSE IF current_slice_len + 1 > max_consecutive_slice_len
                 THEN SplitLoop(s, max_consecutive_slice_len, i + 1, 1,
                                current_slice_is_space, i,
                                Append(out, Slice(s, slice_start, i)))
                 ELSE SplitLoop(s, max_consecutive_slice_len, i + 1,
                                current_slice_len + 1, current_slice_is_space,
                                slice_start, out)

\* SplitLongRepetitions with the first slice starting one character late
SplitLongRepetitions_lateStart(s, max_consecutive_slice_len) ==
    SplitLoop(s, max_consecutive_slice_len, 0, 0,
              IF Len(s) > 0 THEN IsSpace(s[1]) ELSE FALSE, 1, <<>>)

\* SplitLongRepetitions with the first character already counted
SplitLongRepetitions_counted(s, max_consecutive_slice_len) ==
    SplitLoop(s, max_consecutive_slice_len, 0, 1,
              IF Len(s) > 0 THEN IsSpace(s[1]) ELSE FALSE, 0, <<>>)

\* SplitLongRepetitions cutting one character later than the threshold
SplitLongRepetitions_wide(s, max_consecutive_slice_len) ==
    SplitLoop(s, max_consecutive_slice_len + 1, 0, 0,
              IF Len(s) > 0 THEN IsSpace(s[1]) ELSE FALSE, 0, <<>>)

\* lines 54-77: _split_long_repetitions, the slices in the order yielded
SplitLongRepetitions(s, max_consecutive_slice_len) ==
    SplitLoop(s, max_consecutive_slice_len, 0, 0,
              IF Len(s) > 0 THEN IsSpace(s[1]) ELSE FALSE, 0, <<>>)

\* Chunk taking one character less than MAX_ENCODE_CHARS
Chunk_short(txt, i) == Slice(txt, i, i + MAX_ENCODE_CHARS - 1)

\* line 99: substr = text[i : i + MAX_ENCODE_CHARS]
Chunk(txt, i) == Slice(txt, i, i + MAX_ENCODE_CHARS)

\* lines 98-104: substrs after the chunks starting at i, i + MAX_ENCODE_CHARS,
\* ... have been split and appended
RECURSIVE Substrs(_, _)
Substrs(txt, i) ==
    IF i >= Len(txt) THEN <<>>
    ELSE SplitLongRepetitions(Chunk(txt, i), MAX_NO_WHITESPACE_CHARS)
         \o Substrs(txt, i + MAX_ENCODE_CHARS)

\* The byte-pair encoder behind self.tt_model: the merge table, in rank
\* order; a token id is the rank of the token's characters.
MergeableRanks ==
    << <<"a">>, <<"b">>, <<" ">>, <<"a", "a">>, <<" ", "a">>, <<"a", "b">>,
       <<" ", " ">>, <<"a", "a", "b">> >>

Rank(tok) ==
    IF \E r \in 1..Len(MergeableRanks) : MergeableRanks[r] = tok
    THEN (CHOOSE r \in 1..Len(MergeableRanks) : MergeableRanks[r] = tok) - 1
    ELSE -1

\* byte-pair merging: while some adjacent pair of parts is a token, merge the
\* pair of lowest rank (the leftmost of them)
RECURSIVE BpeMerge(_)
BpeMerge(parts) ==
    LET cand == {p \in 1..Len(parts) - 1 : Rank(parts[p] \o parts[p + 1]) >= 0}
    IN IF cand = {} THEN parts
       ELSE LET best == CHOOSE p \in cand :
                            \A o \in cand :
                               LET rp == Rank(parts[p] \o parts[p + 1])
                                   ro == Rank(parts[o] \o parts[o + 1])
                               IN rp < ro \/ (rp = ro /\ p <= o)
            IN BpeMerge(SubSeq(parts, 1, best - 1)
                        \o <<parts[best] \o parts[best + 1]>>
                        \o SubSeq(parts, best + 2, Len(parts)))

\* lines 111-115: self.tt_model.encode(substr, allowed_special=set(),
\* disallowed_special=()): the ids of the merged parts
TtEncode(substr) ==
    LET parts == BpeMerge([p \in 1..Len(substr) |-> <<substr[p]>>])
    IN [p \in 1..Len(parts) |-> Rank(parts[p])]

\* line 132: self.tt_model.decode(token_ids): the tokens' characters, joined
TtDecode(token_ids) ==
    Concat([p \in 1..Len(token_ids) |-> MergeableRanks[token_ids[p] + 1]])

\* lines 105-116: tokens.extend(self.tt_model.encode(substr)) for each substr
RECURSIVE EncodeAll(_)
EncodeAll(substrs) ==
    IF substrs = <<>> THEN <<>>
    ELSE TtEncode(Head(substrs)) \o EncodeAll(Tail(substrs))

NoEnc == [status |-> "none", tokens |-> <<>>, calls |-> <<>>]

\* lines 94-117: encode; calls are the arguments of self.tt_model.encode, in
\* the order of the calls
EncodeResult(txt) ==
    IF txt = <<>>
    THEN [status |-> "ok", tokens |-> <<>>, calls |-> <<>>]
    ELSE LET substrs == Substrs(txt, 0)
         IN [status |-> "ok", tokens |-> EncodeAll(substrs), calls |-> substrs]

\* TikTokenEncoding.encode(text)
Encode ==
    /\ enc' = EncodeResult(text)
    /\ UNCHANGED <<text, dec>>

\* TikTokenEncoding.decode, applied to the ids that encode returned
Decode ==
    /\ enc.status = "ok"
    /\ dec' = [status |-> "ok", text |-> TtDecode(enc.tokens)]
    /\ UNCHANGED <<text, enc>>

RECURSIVE Texts(_)
\* the texts of exactly n characters
Texts(n) ==
    IF n = 0 THEN {<<>>}
    ELSE {<<c>> \o t : c \in Alphabet, t \in Texts(n - 1)}

InitTok ==
    /\ text \in UNION {Texts(n) : n \in 0..MaxTextLen}
    /\ enc = NoEnc
    /\ dec = [status |-> "none", text |-> <<>>]
    /\ ctor = Idle /\ layer = Idle /\ fwd = Idle
    /\ supports_flex = Idle /\ seq_lens = Idle
    /\ document_ids = Idle /\ mask = Idle
    /\ sample = Idle /\ formatted = Idle
    /\ record = Idle /\ column_map = Idle /\ prompt = Idle
    /\ collate_in = Idle /\ collated = Idle
    /\ fs = Idle /\ proc = Idle /\ overlapped = Idle
    /\ split_in = Idle /\ pieces = Idle
    /\ attention_fn = Idle /\ call_args = Idle /\ kernel = Idle

NextTok ==
    \/ Encode /\ UNCHANGED <<attn_vars, mask_vars, chat_vars, alpaca_vars, collate_vars, fixture_vars,
                    split_vars, dispatch_vars>>
    \/ Decode /\ UNCHANGED <<attn_vars, mask_vars, chat_vars, alpaca_vars, collate_vars, fixture_vars,
                    split_vars, dispatch_vars>>

SpecTok == InitTok /\ [][NextTok]_vars

(***************************************************************************)
(* Claims about the tokenizer, checked under SpecTok.                      *)
(***************************************************************************)
\* C5: decoding the ids that encode returned for a text gives the text back.
C5_RoundTrip ==
    dec.status = "ok" => dec.text = text

\* C5 witness: a round trip of a text longer than MAX_ENCODE_CHARS that holds
\* a run longer than MAX_NO_WHITESPACE_CHARS, encoded in at least three
\* pieces, some token spanning more than one character.
C5_Witness ==
    /\ dec.status = "ok" /\ dec.text = text
    /\ Len(text) > MAX_ENCODE_CHARS
    /\ Len(enc.calls) >= 3
    /\ Len(enc.tokens) < Len(text)

\* the k-th (from 1) chunk of at most MAX_ENCODE_CHARS characters of txt
NthChunk(txt, k) ==
    SubSeq(txt, (k - 1) * MAX_ENCODE_CHARS + 1, Min(k * MAX_ENCODE_CHARS, Len(txt)))

\* the number of chunks of a text of n characters
NumChunks(n) == (n + MAX_ENCODE_CHARS - 1) \div MAX_ENCODE_CHARS

\* C6: encode of the empty text returns no ids and calls the encoder never;
\* otherwise the encoder is called on the pieces of the chunks of at most
\* MAX_ENCODE_CHARS characters, chunk by chunk and piece by piece from left to
\* right, every piece non-empty and at most MAX_ENCODE_CHARS long, the pieces
\* concatenating to the text, and the result is the per-piece ids concatenated
\* in that order.
C6_EncodePieces ==
    enc.status = "ok" =>
        /\ text = <<>> => enc.tokens = <<>> /\ enc.calls = <<>>
        /\ Concat(enc.calls) = text
        /\ \A p \in 1..Len(enc.calls) :
              Len(enc.calls[p]) \in 1..MAX_ENCODE_CHARS
        /\ enc.calls =
              Concat([k \in 1..NumChunks(Len(text)) |->
                         SplitLongRepetitions(NthChunk(text, k),
                                              MAX_NO_WHITESPACE_CHARS)])
        /\ enc.tokens = Concat([p \in 1..Len(enc.calls) |-> TtEncode(enc.calls[p])])

\* C6 witness: a text of two chunks whose first chunk is split in two pieces.
C6_Witness ==
    /\ enc.status = "ok"
    /\ text = <<"a", "a", "a", " ", "b", "b", "b">>
    /\ enc.calls = << <<"a", "a">>, <<"a", " ", "b">>, <<"b", "b">> >>

(***************************************************************************)
(* torchtune/data/_prompt_templates.py: the chat templates                 *)
(***************************************************************************)
\* Bound on the number of turns of a conversation.
MaxTurns == 3

Roles == {"system", "user", "assistant"}
Contents == {"x", "y"}

\* torchtune.data.Message
Messages == [role : Roles, content : Contents, masked : BOOLEAN]

\* A format string is a sequence of literal parts and replacement fields.
Lit(s) == [kind |-> "lit", text |-> s]
Field(name) == [kind |-> "field", text |-> name]

\* str.format(**args): every replacement field is replaced by its argument;
\* the arguments are not themselves interpreted
RECURSIVE StrFormat(_, _)
StrFormat(tpl, args) ==
    IF tpl = <<>> THEN ""
    ELSE (IF Head(tpl).kind = "lit" THEN Head(tpl).text ELSE args[Head(tpl).text])
         \o StrFormat(Tail(tpl), args)

\* MessageOf losing the masked flag
MessageOf_unmasked(message, content) ==
    [role |-> message.role, content |-> content, masked |-> FALSE]

\* lines 101-103, 159-161, 217-219:
\* Message(role=message.role, content=content, masked=message.masked)
MessageOf(message, content) ==
    [role |-> message.role, content |-> content, masked |-> message.masked]

\* lines 60-61
Llama2_B_INST == "[INST]"
Llama2_E_INST == "[/INST]"
Llama2_B_SYS == "<<SYS>>\n"
Llama2_E_SYS == "\n<</SYS>>\n\n"

\* line 63: system = f"{B_SYS}{{content}}{E_SYS}"
Llama2_system == <<Lit(Llama2_B_SYS), Field("content"), Lit(Llama2_E_SYS)>>

\* Llama2_user without the system_message field
Llama2_user_noSystem ==
    <<Lit(Llama2_B_INST \o " "), Field("content"), Lit(" " \o Llama2_E_INST \o " ")>>

\* line 64: user = f"{B_INST} {{system_message}}{{content}} {E_INST} "
Llama2_user ==
    <<Lit(Llama2_B_INST \o " "), Field("system_message"), Field("content"),
      Lit(" " \o Llama2_E_INST \o " ")>>

\* lines 84-103: the loop of Llama2ChatTemplate.format over the remaining
\* messages
RECURSIVE Llama2Loop(_, _, _)
Llama2Loop(msgs, system_message, formatted_dialogue) ==
    IF msgs = <<>> THEN formatted_dialogue
    ELSE LET message == Head(msgs)
         IN IF message.role = "system"
            THEN Llama2Loop(Tail(msgs),
                            StrFormat(Llama2_system, [content |-> message.content]),
                            formatted_dialogue)
            ELSE LET content ==
                         IF message.role = "user"
                         THEN StrFormat(Llama2_user,
                                        [system_message |-> system_message,
                                         content |-> message.content])
                         ELSE IF message.role = "assistant"
                              THEN message.content
                              ELSE ""
                 IN Llama2Loop(Tail(msgs), system_message,
                               Append(formatted_dialogue, MessageOf(message, content)))

\* Llama2FormatResult starting from a wrapped, empty system text
Llama2FormatResult_preset(smpl) ==
    [template |-> "Llama2ChatTemplate", status |-> "ok",
     messages |-> Llama2Loop(smpl, StrFormat(Llama2_system, [content |-> ""]), <<>>)]

\* lines 82-104: Llama2ChatTemplate.format
Llama2FormatResult(smpl) ==
    [template |-> "Llama2ChatTemplate", status |-> "ok",
     messages |-> Llama2Loop(smpl, "", <<>>)]

\* lines 122-124
Mistral_B_INST == "[INST]"
Mistral_E_INST == "[/INST]"
Mistral_user ==
    <<Lit(Mistral_B_INST \o " "), Field("content"), Lit(" " \o Mistral_E_INST \o " ")>>

\* MistralRejects accepting every message
MistralRejects_never(message) == FALSE

\* line 148: if message.role == "system": raise ValueError
MistralRejects(message) == message.role = "system"

\* lines 146-161: the loop of MistralChatTemplate.format; a ValueError ends it
\* and nothing is returned
RECURSIVE MistralLoop(_, _)
MistralLoop(msgs, formatted_dialogue) ==
    IF msgs = <<>>
    THEN [template |-> "MistralChatTemplate", status |-> "ok",
          messages |-> formatted_dialogue]
    ELSE LET message == Head(msgs)
         IN IF MistralRejects(message)
            THEN [template |-> "MistralChatTemplate", status |-> "ValueError",
                  messages |-> <<>>]
            ELSE LET content ==
                         IF message.role = "user"
                         THEN StrFormat(Mistral_user, [content |-> message.content])
                         ELSE IF message.role = "assistant"
                              THEN message.content
                              ELSE ""
                 IN MistralLoop(Tail(msgs),
                                Append(formatted_dialogue, MessageOf(message, content)))

\* lines 145-162: MistralChatTemplate.format
MistralFormatResult(smpl) == MistralLoop(smpl, <<>>)

\* lines 184-187
IM_START == "<|im_start|>"
IM_END == "<|im_end|>"
ChatML_system == <<Lit(IM_START \o "system\n"), Field("content"), Lit(IM_END \o "\n")>>
ChatML_user == <<Lit(IM_START \o "user\n"), Field("content"), Lit(IM_END \o "\n")>>
ChatML_assistant == <<Lit(IM_START \o "assistant\n"), Field("content"), Lit(IM_END)>>

\* lines 205-219: the loop of ChatMLTemplate.format
RECURSIVE ChatMLLoop(_, _)
ChatMLLoop(msgs, formatted_dialogue) ==
    IF msgs = <<>> THEN formatted_dialogue
    ELSE LET message == Head(msgs)
             content ==
                 IF message.role = "system"
                 THEN StrFormat(ChatML_system, [content |-> message.content])
                 ELSE IF message.role = "user"
                      THEN StrFormat(ChatML_user, [content |-> message.content])
                      ELSE IF message.role = "assistant"
                           THEN StrFormat(ChatML_assistant,
                                          [content |-> message.content])
                           ELSE ""
         IN ChatMLLoop(Tail(msgs),
                       Append(formatted_dialogue, MessageOf(message, content)))

\* lines 204-220: ChatMLTemplate.format
ChatMLFormatResult(smpl) ==
    [template |-> "ChatMLTemplate", status |-> "ok",
     messages |-> ChatMLLoop(smpl, <<>>)]

NoFormatted == [template |-> "none", status |-> "none", messages |-> <<>>]

\* Llama2ChatTemplate.format(sample)
Llama2Format ==
    /\ formatted' = Llama2FormatResult(sample)
    /\ sample' = sample

\* MistralChatTemplate.format(sample)
MistralFormat ==
    /\ formatted' = MistralFormatResult(sample)
    /\ sample' = sample

\* ChatMLTemplate.format(sample)
ChatMLFormat ==
    /\ formatted' = ChatMLFormatResult(sample)
    /\ sample' = sample

RECURSIVE Conversations(_)
\* the conversations of exactly n turns
Conversations(n) ==
    IF n = 0 THEN {<<>>}
    ELSE {<<m>> \o c : m \in Messages, c \in Conversations(n - 1)}

InitChat ==
    /\ sample \in UNION {Conversations(n) : n \in 0..MaxTurns}
    /\ formatted = NoFormatted
    /\ ctor = Idle /\ layer = Idle /\ fwd = Idle
    /\ supports_flex = Idle /\ seq_lens = Idle
    /\ document_ids = Idle /\ mask = Idle
    /\ text = Idle /\ enc = Idle /\ dec = Idle
    /\ record = Idle /\ column_map = Idle /\ prompt = Idle
    /\ collate_in = Idle /\ collated = Idle
    /\ fs = Idle /\ proc = Idle /\ overlapped = Idle
    /\ split_in = Idle /\ pieces = Idle
    /\ attention_fn = Idle /\ call_args = Idle /\ kernel = Idle

NextChat ==
    \/ Llama2Format /\ UNCHANGED <<attn_vars, mask_vars, tok_vars, alpaca_vars, collate_vars, fixture_vars,
                    split_vars, dispatch_vars>>
    \/ MistralFormat /\ UNCHANGED <<attn_vars, mask_vars, tok_vars, alpaca_vars, collate_vars, fixture_vars,
                    split_vars, dispatch_vars>>
    \/ ChatMLFormat /\ UNCHANGED <<attn_vars, mask_vars, tok_vars, alpaca_vars, collate_vars, fixture_vars,
                    split_vars, dispatch_vars>>

SpecChat == InitChat /\ [][NextChat]_vars

(***************************************************************************)
(* Claims about the chat templates, checked under SpecChat.                *)
(***************************************************************************)
\* the positions of the non-system turns of a conversation, in order
RECURSIVE NonSystemFrom(_, _)
NonSystemFrom(smpl, p) ==
    IF p > Len(smpl) THEN <<>>
    ELSE (IF smpl[p].role = "system" THEN <<>> ELSE <<p>>) \o NonSystemFrom(smpl, p + 1)

NonSystem(smpl) == NonSystemFrom(smpl, 1)

\* the positions of the system turns before position p
SystemBefore(smpl, p) == {s \in 1..p - 1 : smpl[s].role = "system"}

\* the greatest element of a non-empty set of numbers
Last(S) == CHOOSE s \in S : \A o \in S : o <= s

\* C7: Llama2ChatTemplate.format returns one message per non-system turn, in
\* order; a user turn that follows a system turn becomes "[INST] <<SYS>>\n" +
\* system content + "\n<</SYS>>\n\n" + user content + " [/INST] ", the system
\* content being that of the last system turn before it, and an assistant
\* turn keeps its content.
C7_Llama2Format ==
    formatted.template = "Llama2ChatTemplate" =>
        LET kept == NonSystem(sample)
            out == formatted.messages
        IN /\ formatted.status = "ok"
           /\ Len(out) = Len(kept)
           /\ Len(out) = Cardinality({p \in 1..Len(sample) : sample[p].role # "system"})
           /\ \A j \in 1..Len(kept) :
                 LET p == kept[j]
                 IN /\ out[j].role = sample[p].role
                    /\ sample[p].role = "assistant" =>
                          out[j].content = sample[p].content
                    /\ sample[p].role = "user" /\ SystemBefore(sample, p) # {} =>
                          out[j].content =
                             "[INST] " \o "<<SYS>>\n"
                             \o sample[Last(SystemBefore(sample, p))].content
                             \o "\n<</SYS>>\n\n" \o sample[p].content \o " [/INST] "

\* C7 witness: [system, user, user]: two messages, the system text embedded
\* in both user turns.
C7_Witness ==
    /\ formatted.template = "Llama2ChatTemplate"
    /\ Len(sample) = 3
    /\ sample[1].role = "system" /\ sample[1].content = "x"
    /\ sample[2].role = "user" /\ sample[2].content = "y"
    /\ sample[3].role = "user" /\ sample[3].content = "x"
    /\ Len(formatted.messages) = 2
    /\ formatted.messages[1].content = "[INST] <<SYS>>\nx\n<</SYS>>\n\ny [/INST] "
    /\ formatted.messages[2].content = "[INST] <<SYS>>\nx\n<</SYS>>\n\nx [/INST] "

\* the system text in force at position p: empty before every system turn,
\* else the wrapped content of the most recent system turn before p
SystemTextAt(smpl, p) ==
    IF SystemBefore(smpl, p) = {} THEN ""
    ELSE "<<SYS>>\n" \o smpl[Last(SystemBefore(smpl, p))].content \o "\n<</SYS>>\n\n"

\* C24: in Llama2ChatTemplate.format every user turn is wrapped with the
\* system text of the most recent system turn before it, and with an empty
\* system text ("[INST] " + content + " [/INST] ") when no system turn comes
\* before it; a later system turn replaces an earlier one for the user turns
\* after it; the output has one message per non-system turn and nothing
\* else, so a system turn that no user turn follows contributes nothing.
C24_SystemTextInForce ==
    formatted.template = "Llama2ChatTemplate" =>
        LET kept == NonSystem(sample)
            out == formatted.messages
        IN /\ Len(out) = Len(kept)
           /\ \A j \in 1..Len(kept) :
                 LET p == kept[j]
                 IN out[j] =
                       [role |-> sample[p].role,
                        masked |-> sample[p].masked,
                        content |->
                           IF sample[p].role = "user"
                           THEN "[INST] " \o SystemTextAt(sample, p)
                                \o sample[p].content \o " [/INST] "
                           ELSE sample[p].content]

\* C24 witness: [user, system, user]: the first user turn is wrapped with an
\* empty system text, the second with the text of the system turn between.
C24_Witness ==
    /\ formatted.template = "Llama2ChatTemplate"
    /\ Len(sample) = 3
    /\ sample[1].role = "user" /\ sample[1].content = "y"
    /\ sample[2].role = "system" /\ sample[2].content = "x"
    /\ sample[3].role = "user" /\ sample[3].content = "y"
    /\ formatted.messages[1].content = "[INST] y [/INST] "
    /\ formatted.messages[2].content = "[INST] <<SYS>>\nx\n<</SYS>>\n\ny [/INST] "

\* [system, system, user]: the second system turn has replaced the first
C24_Replaced ==
    /\ formatted.template = "Llama2ChatTemplate"
    /\ Len(sample) = 3
    /\ sample[1].role = "system" /\ sample[1].content = "x"
    /\ sample[2].role = "system" /\ sample[2].content = "y"
    /\ sample[3].role = "user" /\ sample[3].content = "x"
    /\ formatted.messages[1].content = "[INST] <<SYS>>\ny\n<</SYS>>\n\nx [/INST] "

\* [user, assistant, system]: the trailing system turn leaves no trace
C24_Trailing ==
    /\ formatted.template = "Llama2ChatTemplate"
    /\ Len(sample) = 3
    /\ sample[1].role = "user" /\ sample[2].role = "assistant"
    /\ sample[3].role = "system"
    /\ Len(formatted.messages) = 2
    /\ formatted.messages[1].content = "[INST] " \o sample[1].content \o " [/INST] "
    /\ formatted.messages[2].content = sample[2].content

\* C8: MistralChatTemplate.format fails with a ValueError, returning no list,
\* exactly when the conversation has a system turn at some position;
\* otherwise it returns one message per turn, a user turn as "[INST] " +
\* content + " [/INST] " and an assistant turn with its content.
C8_MistralFormat ==
    formatted.template = "MistralChatTemplate" =>
        LET out == formatted.messages
        IN /\ (formatted.status = "ValueError") <=>
                 (\E p \in 1..Len(sample) : sample[p].role = "system")
           /\ formatted.status = "ValueError" => out = <<>>
           /\ formatted.status # "ValueError" =>
                 /\ formatted.status = "ok"
                 /\ Len(out) = Len(sample)
                 /\ \A p \in 1..Len(sample) :
                       /\ sample[p].role = "user" =>
                             out[p].content = "[INST] " \o sample[p].content \o " [/INST] "
                       /\ sample[p].role = "assistant" =>
                             out[p].content = sample[p].content

\* C8 witness: a conversation whose only system turn is its last turn is
\* rejected.
C8_Witness ==
    /\ formatted.template = "MistralChatTemplate"
    /\ formatted.status = "ValueError"
    /\ Len(sample) = 3
    /\ sample[1].role = "user" /\ sample[2].role = "assistant"
    /\ sample[3].role = "system"

\* the output of a chat template keeps the input's order, roles and masked
\* flags: for ChatML, and for Mistral when it returns, output message p comes
\* from input turn p; for Llama-2 output message j comes from the j-th
\* non-system input turn
StructureKept ==
    formatted.status = "ok" =>
        LET out == formatted.messages
            kept == IF formatted.template = "Llama2ChatTemplate"
                    THEN NonSystem(sample)
                    ELSE [p \in 1..Len(sample) |-> p]
        IN /\ Len(out) = Len(kept)
           /\ \A j \in 1..Len(kept) :
                 /\ out[j].role = sample[kept[j]].role
                 /\ out[j].masked = sample[kept[j]].masked

\* C9: every call of format leaves the conversation it was given unchanged,
\* and its output keeps the order, the roles and the masked flags of the
\* input turns it was produced from (all turns for ChatML and Mistral, the
\* non-system turns for Llama-2).
C9_StructurePreserved == [][sample' = sample /\ StructureKept']_vars

\* C9 witness: ChatML output of a conversation with a masked and an unmasked
\* turn.
C9_Witness ==
    /\ formatted.template = "ChatMLTemplate" /\ formatted.status = "ok"
    /\ Len(sample) = 3 /\ Len(formatted.messages) = 3
    /\ sample[1].role = "system" /\ sample[1].masked
    /\ sample[2].role = "user" /\ ~sample[2].masked
    /\ formatted.messages[1].masked /\ ~formatted.messages[2].masked
    /\ formatted.messages[1].content = "<|im_start|>system\nx<|im_end|>\n"

(***************************************************************************)
(* torchtune/data/_prompt_templates.py: AlpacaInstructTemplate             *)
(***************************************************************************)
\* The names of the fields a record or a column_map may use, and the values
\* of a field.
FieldNames == {"instruction", "input", "question", "context"}
FieldValues == {"", "v"}

\* lines 229-233: template["prompt_input"]
Alpaca_prompt_input ==
    <<Lit("Below is an instruction that describes a task, paired with an input that provides further context. "
          \o "Write a response that appropriately completes the request.\n\n"
          \o "### Instruction:\n"),
      Field("instruction"), Lit("\n\n### Input:\n"), Field("input"),
      Lit("\n\n### Response:\n")>>

\* lines 234-238: template["prompt_no_input"]
Alpaca_prompt_no_input ==
    <<Lit("Below is an instruction that describes a task. "
          \o "Write a response that appropriately completes the request.\n\n"
          \o "### Instruction:\n"),
      Field("instruction"), Lit("\n\n### Response:\n")>>

\* Optional[Dict[str, str]]: None, or a dict (a function on its keys)
NoDict == [given |-> FALSE, dict |-> <<>>]
Dict(d) == [given |-> TRUE, dict |-> d]

\* line 257: column_map or {}: None and the empty dict are falsy
OrEmpty(cm) == IF cm.given THEN cm.dict ELSE <<>>

\* dict.get(key, default)
Get(d, key, default) == IF key \in DOMAIN d THEN d[key] ELSE default

\* HasInput without the test that the value is non-empty
HasInput_presentOnly(smpl, key_input) == key_input \in DOMAIN smpl

\* line 261: if key_input in sample and sample[key_input]
HasInput(smpl, key_input) == key_input \in DOMAIN smpl /\ smpl[key_input] # ""

NoPrompt == [status |-> "none", template |-> "none", text |-> ""]

\* lines 257-269: AlpacaInstructTemplate.format; reading a field the record
\* lacks raises KeyError
AlpacaFormatResult(smpl, cm) ==
    LET colmap == OrEmpty(cm)
        key_input == Get(colmap, "input", "input")
        key_instruction == Get(colmap, "instruction", "instruction")
    IN IF HasInput(smpl, key_input)
       THEN IF key_instruction \in DOMAIN smpl
            THEN [status |-> "ok", template |-> "prompt_input",
                  text |-> StrFormat(Alpaca_prompt_input,
                                     [instruction |-> smpl[key_instruction],
                                      input |-> smpl[key_input]])]
            ELSE [status |-> "KeyError", template |-> "prompt_input", text |-> ""]
       ELSE IF key_instruction \in DOMAIN smpl
            THEN [status |-> "ok", template |-> "prompt_no_input",
                  text |-> StrFormat(Alpaca_prompt_no_input,
                                     [instruction |-> smpl[key_instruction]])]
            ELSE [status |-> "KeyError", template |-> "prompt_no_input", text |-> ""]

\* AlpacaInstructTemplate.format(record, column_map)
AlpacaFormat ==
    /\ prompt' = AlpacaFormatResult(record, column_map)
    /\ UNCHANGED <<record, column_map>>

\* the dicts with keys among K and values among V
Dicts(K, V) == UNION {[D -> V] : D \in SUBSET K}

InitAlpaca ==
    /\ record \in Dicts(FieldNames, FieldValues)
    /\ column_map \in {NoDict} \cup
                      {Dict(d) : d \in Dicts({"input", "instruction"}, FieldNames)}
    /\ prompt = NoPrompt
    /\ ctor = Idle /\ layer = Idle /\ fwd = Idle
    /\ supports_flex = Idle /\ seq_lens = Idle
    /\ document_ids = Idle /\ mask = Idle
    /\ text = Idle /\ enc = Idle /\ dec = Idle
    /\ sample = Idle /\ formatted = Idle
    /\ collate_in = Idle /\ collated = Idle
    /\ fs = Idle /\ proc = Idle /\ overlapped = Idle
    /\ split_in = Idle /\ pieces = Idle
    /\ attention_fn = Idle /\ call_args = Idle /\ kernel = Idle

NextAlpaca ==
    AlpacaFormat /\ UNCHANGED <<attn_vars, mask_vars, tok_vars, chat_vars, collate_vars, fixture_vars,
                    split_vars, dispatch_vars>>

SpecAlpaca == InitAlpaca /\ [][NextAlpaca]_vars

(***************************************************************************)
(* Claims about the Alpaca template, checked under SpecAlpaca.             *)
(***************************************************************************)
\* the field of the record that column_map names for a placeholder
MappedField(placeholder) ==
    IF column_map.given /\ placeholder \in DOMAIN column_map.dict
    THEN column_map.dict[placeholder]
    ELSE placeholder

\* C10: AlpacaInstructTemplate.format uses the long template exactly when
\* the field named for "input" is in the record and not empty, and the short
\* one otherwise; the instruction is the field named for "instruction", and
\* the call fails only when the record lacks that field.
C10_AlpacaTemplateChoice ==
    prompt.status # "none" =>
        LET f_in == MappedField("input")
            f_ins == MappedField("instruction")
            long == f_in \in DOMAIN record /\ record[f_in] # ""
        IN /\ (prompt.template = "prompt_input") <=> long
           /\ (prompt.template = "prompt_no_input") <=> ~long
           /\ (prompt.status = "ok") <=> (f_ins \in DOMAIN record)
           /\ prompt.status = "ok" /\ long =>
                 prompt.text =
                    "Below is an instruction that describes a task, paired with an input that provides further context. Write a response that appropriately completes the request.\n\n### Instruction:\n"
                    \o record[f_ins] \o "\n\n### Input:\n" \o record[f_in]
                    \o "\n\n### Response:\n"
           /\ prompt.status = "ok" /\ ~long =>
                 prompt.text =
                    "Below is an instruction that describes a task. Write a response that appropriately completes the request.\n\n### Instruction:\n"
                    \o record[f_ins] \o "\n\n### Response:\n"

\* C10 witness: with column_map = {"input": "context"} a record whose
\* "context" is empty and whose "input" is not gets the short template.
C10_Witness ==
    /\ prompt.status = "ok" /\ prompt.template = "prompt_no_input"
    /\ column_map = Dict([k \in {"input"} |-> "context"])
    /\ DOMAIN record = {"instruction", "input", "context"}
    /\ record["input"] = "v" /\ record["context"] = "" /\ record["instruction"] = "v"


(***************************************************************************)
(* torchtune/data/tokenizers/_tiktoken.py: _split_long_repetitions called  *)
(* on its own, with any threshold of at least 1                            *)
(***************************************************************************)
\* Bounds on the string's length and on the threshold.
MaxSplitLen == 6
MaxThreshold == 3

NoPieces == [status |-> "none", out |-> <<>>]

\* list(self._split_long_repetitions(s, max_consecutive_slice_len)): the
\* generator run to exhaustion
SplitCall ==
    /\ pieces' = [status |-> "yielded",
                  out |-> SplitLongRepetitions(split_in.s,
                                               split_in.max_consecutive_slice_len)]
    /\ UNCHANGED split_in

InitSplit ==
    /\ split_in \in [s : UNION {Texts(n) : n \in 0..MaxSplitLen},
                     max_consecutive_slice_len : 1..MaxThreshold]
    /\ pieces = NoPieces
    /\ ctor = Idle /\ layer = Idle /\ fwd = Idle
    /\ supports_flex = Idle /\ seq_lens = Idle
    /\ document_ids = Idle /\ mask = Idle
    /\ text = Idle /\ enc = Idle /\ dec = Idle
    /\ sample = Idle /\ formatted = Idle
    /\ record = Idle /\ column_map = Idle /\ prompt = Idle
    /\ collate_in = Idle /\ collated = Idle
    /\ fs = Idle /\ proc = Idle /\ overlapped = Idle
    /\ attention_fn = Idle /\ call_args = Idle /\ kernel = Idle

NextSplit ==
    SplitCall /\ UNCHANGED <<attn_vars, mask_vars, tok_vars, chat_vars, alpaca_vars,
                             collate_vars, fixture_vars, dispatch_vars>>

SpecSplit == InitSplit /\ [][NextSplit]_vars

(***************************************************************************)
(* Claims about _split_long_repetitions, checked under SpecSplit.          *)
(***************************************************************************)
\* C19: for every string and every threshold of at least 1, the pieces
\* yielded, concatenated in the order yielded, are the string itself; the
\* empty string included.
C19_PiecesConcatToInput ==
    pieces.status = "yielded" => Concat(pieces.out) = split_in.s

\* C19 witness: a string of both character classes that was cut into three
\* pieces.
C19_Witness ==
    /\ pieces.status = "yielded"
    /\ Len(pieces.out) = 3
    /\ \E a, b \in 1..Len(split_in.s) :
          IsSpace(split_in.s[a]) /\ ~IsSpace(split_in.s[b])

\* a run of more than n consecutive characters of one class inside piece
HasRunLongerThan(piece, n) ==
    \E a \in 1..Len(piece) - n :
       \A j \in a..a + n : IsSpace(piece[j]) = IsSpace(piece[a])

\* the string consists of characters of one class only
SingleClass(s) == \A a, b \in 1..Len(s) : IsSpace(s[a]) = IsSpace(s[b])

\* C20: no piece yielded holds a run of more than max_consecutive_slice_len
\* consecutive whitespace characters or consecutive non-whitespace
\* characters; the pieces of a string of a single class are each no longer
\* than the threshold.
C20_RunsBounded ==
    pieces.status = "yielded" =>
       \A k \in 1..Len(pieces.out) :
          /\ ~HasRunLongerThan(pieces.out[k], split_in.max_consecutive_slice_len)
          /\ SingleClass(split_in.s) =>
                Len(pieces.out[k]) <= split_in.max_consecutive_slice_len

\* C20 witness: a string of whitespace only, longer than twice the threshold,
\* was cut.
C20_Witness ==
    /\ pieces.status = "yielded"
    /\ Len(split_in.s) > 2 * split_in.max_consecutive_slice_len
    /\ SingleClass(split_in.s)
    /\ IsSpace(split_in.s[1])
    /\ Len(pieces.out) >= 3

\* the length of the run of characters of one class that ends a non-empty
\* piece
TrailingRun(piece) ==
    CHOOSE r \in 1..Len(piece) :
        /\ \A j \in Len(piece) - r + 1..Len(piece) :
              IsSpace(piece[j]) = IsSpace(piece[Len(piece)])
        /\ r < Len(piece) =>
              IsSpace(piece[Len(piece) - r]) # IsSpace(piece[Len(piece)])

\* C25: a string with no run longer than max_consecutive_slice_len is
\* yielded as one piece, the string itself; at every cut the characters
\* before and after the cut are of one whitespace class and the piece before
\* the cut ends with a run of exactly max_consecutive_slice_len characters of
\* that class; no piece of a non-empty string is empty.
C25_CutsOnlyInLongRuns ==
    pieces.status = "yielded" =>
        LET s == split_in.s
            n == split_in.max_consecutive_slice_len
            out == pieces.out
        IN /\ ~HasRunLongerThan(s, n) => out = <<s>>
           /\ Len(s) > 0 => \A k \in 1..Len(out) : Len(out[k]) > 0
           /\ \A k \in 1..Len(out) - 1 :
                 /\ Len(out[k]) > 0 /\ Len(out[k + 1]) > 0
                 /\ IsSpace(out[k][Len(out[k])]) = IsSpace(out[k + 1][1])
                 /\ TrailingRun(out[k]) = n

\* C25 witness: one cut, inside a run of whitespace that follows a character
\* of the other class; the piece before the cut holds both classes.
C25_Witness ==
    /\ pieces.status = "yielded"
    /\ split_in.max_consecutive_slice_len = 2
    /\ split_in.s = <<"a", " ", " ", " ", "b">>
    /\ pieces.out = <<(<<"a", " ", " ">>), (<<" ", "b">>)>>


(***************************************************************************)
(* torchtune.data collation: left_pad_sequence, padded_collate,            *)
(* padded_collate_sft, padded_collate_dpo, padded_collate_packed           *)
(* (called by tests/torchtune/data/test_collate.py)                        *)
(***************************************************************************)
\* Bounds on a batch: its number of samples and the length of a sequence.
MaxCollateBatch == 2
MaxFieldLen == 2

\* The collation functions move the elements of the samples' sequences and
\* never inspect them, so an element is represented by where it comes from:
\* sample b (from 1), field number f, position i (from 1; 0 for a scalar).
\* Elements are positive; the padding values below are not.
Elem(b, f, i) == 1000 + 100 * b + 10 * f + i

\* the sequence of length n of field f of sample b
SeqOf(b, f, n) == [i \in 1..n |-> Elem(b, f, i)]

\* padding values: padding_idx, ignore_idx, padding_value
PadVals == {0, -100}

\* the set of the entries of a list
Range(s) == {s[i] : i \in DOMAIN s}

\* the length of the longest of the sequences
MaxLenOf(sequences) ==
    IF sequences = <<>> THEN 0
    ELSE LET longest == CHOOSE b \in DOMAIN sequences :
                           \A o \in DOMAIN sequences :
                              Len(sequences[o]) <= Len(sequences[b])
         IN Len(sequences[longest])

\* PadSequence inserting the padding before the sequence
PadSequence_leading(sequences, padding_value) ==
    [b \in DOMAIN sequences |->
        Full(MaxLenOf(sequences) - Len(sequences[b]), padding_value)
           \o sequences[b]]

\* trailing padding (pad_sequence, batch_first): every sequence followed by
\* padding_value up to the length of the longest, stacked in order
PadSequence(sequences, padding_value) ==
    [b \in DOMAIN sequences |->
        sequences[b]
           \o Full(MaxLenOf(sequences) - Len(sequences[b]), padding_value)]

\* a sequence reversed
Flip(s) == [i \in 1..Len(s) |-> s[Len(s) + 1 - i]]

\* the rows of a 2-D tensor exchanged with its columns
Transpose01(rows) ==
    [c \in 1..MaxLenOf(rows) |-> [b \in DOMAIN rows |-> rows[b][c]]]

\* left_pad_sequence: the mirror image of trailing padding: the sequences
\* are reversed, padded at the end and reversed back; batch_first chooses
\* whether the sample axis leads
LeftPadSequence(sequences, batch_first, padding_value) ==
    LET flipped == [b \in DOMAIN sequences |-> Flip(sequences[b])]
        padded == PadSequence(flipped, padding_value)
        rows == [b \in DOMAIN sequences |-> Flip(padded[b])]
    IN IF batch_first THEN rows ELSE Transpose01(rows)

\* padding_idx is one value for all keys or a mapping from key to value
OneValue(v) == [is_mapping |-> FALSE, value |-> v, mapping |-> <<>>]
Mapping(d) == [is_mapping |-> TRUE, value |-> 0, mapping |-> d]

\* PaddedCollateInvalid accepting a mapping that covers keys_to_pad and more
PaddedCollateInvalid_subset(pad_direction, keys_to_pad, padding_idx) ==
    \/ keys_to_pad = <<>>
    \/ pad_direction \notin {"left", "right"}
    \/ /\ padding_idx.is_mapping
       /\ ~(Range(keys_to_pad) \subseteq DOMAIN padding_idx.mapping)

\* padded_collate, validation: keys_to_pad empty; pad_direction not "left"
\* or "right"; a mapping whose key set is not that of keys_to_pad
PaddedCollateInvalid(pad_direction, keys_to_pad, padding_idx) ==
    \/ keys_to_pad = <<>>
    \/ pad_direction \notin {"left", "right"}
    \/ /\ padding_idx.is_mapping
       /\ DOMAIN padding_idx.mapping # Range(keys_to_pad)

\* the padding value of key k
PadValueOf(padding_idx, k) ==
    IF padding_idx.is_mapping THEN padding_idx.mapping[k] ELSE padding_idx.value

\* the values of key k of the samples, in sample order
Column(batch, k) == [b \in DOMAIN batch |-> batch[b][k]]

\* StackOthers keeping only the keys that are padded
StackOthers_dropped(batch, keys_to_pad, padded) ==
    [k \in DOMAIN padded |-> padded[k]]

\* padded_collate, behaviour for the keys outside keys_to_pad: the samples'
\* values stacked unchanged, next to the padded keys
StackOthers(batch, keys_to_pad, padded) ==
    [k \in DOMAIN batch[1] |->
        IF k \in DOMAIN padded THEN padded[k] ELSE Column(batch, k)]

NoBatch == [status |-> "none", out |-> <<>>]

\* padded_collate(batch, pad_direction, keys_to_pad, padding_idx)
PaddedCollate(batch, pad_direction, keys_to_pad, padding_idx) ==
    IF PaddedCollateInvalid(pad_direction, keys_to_pad, padding_idx)
    THEN [status |-> "ValueError", out |-> <<>>]
    ELSE LET padded ==
                [k \in Range(keys_to_pad) |->
                    IF pad_direction = "left"
                    THEN LeftPadSequence(Column(batch, k), TRUE,
                                         PadValueOf(padding_idx, k))
                    ELSE PadSequence(Column(batch, k),
                                     PadValueOf(padding_idx, k))]
         IN [status |-> "ok", out |-> StackOthers(batch, keys_to_pad, padded)]


\* PaddedCollateSft with the two padding values exchanged
PaddedCollateSft_swapped(batch, padding_idx, ignore_idx) ==
    [status |-> "ok",
     out |-> [tokens |-> PadSequence(Column(batch, "tokens"), ignore_idx),
              labels |-> PadSequence(Column(batch, "labels"), padding_idx)]]

\* padded_collate_sft: tokens right-padded with padding_idx, labels with
\* ignore_idx, each to its own batch maximum
PaddedCollateSft(batch, padding_idx, ignore_idx) ==
    [status |-> "ok",
     out |-> [tokens |-> PadSequence(Column(batch, "tokens"), padding_idx),
              labels |-> PadSequence(Column(batch, "labels"), ignore_idx)]]

\* the length of the rows of a stacked block of at least one row
Width(rows) == Len(rows[1])

\* two blocks joined along the sample axis form one tensor only when their
\* rows are equally long
CanCat0(chosen, rejected) == Width(chosen) = Width(rejected)

\* DpoBlocks padding the rejected block with the chosen block's value order
\* exchanged: the rejected rows first
DpoBlocks_rejectedFirst(chosen, rejected, pad) ==
    PadSequence(rejected, pad) \o PadSequence(chosen, pad)

\* padded_collate_dpo, one of its two results: the chosen sequences padded to
\* their own batch maximum and stacked, then the rejected sequences padded
\* to their own batch maximum and stacked, the chosen block first
DpoBlocks(chosen, rejected, pad) ==
    PadSequence(chosen, pad) \o PadSequence(rejected, pad)

\* padded_collate_dpo(batch, padding_idx, ignore_idx): (input_ids, labels)
PaddedCollateDpo(batch, padding_idx, ignore_idx) ==
    LET chosen_input_ids == Column(batch, "chosen_input_ids")
        rejected_input_ids == Column(batch, "rejected_input_ids")
        chosen_labels == Column(batch, "chosen_labels")
        rejected_labels == Column(batch, "rejected_labels")
    IN IF /\ CanCat0(PadSequence(chosen_input_ids, padding_idx),
                     PadSequence(rejected_input_ids, padding_idx))
          /\ CanCat0(PadSequence(chosen_labels, ignore_idx),
                     PadSequence(rejected_labels, ignore_idx))
       THEN [status |-> "ok",
             out |-> [input_ids |-> DpoBlocks(chosen_input_ids,
                                              rejected_input_ids, padding_idx),
                      labels |-> DpoBlocks(chosen_labels, rejected_labels,
                                           ignore_idx)]]
       ELSE [status |-> "SizeMismatch", out |-> <<>>]

\* padded_collate_packed(batch, device): tokens, labels and input_pos
\* stacked, and the mask that packed_block_causal_mask builds from the
\* stacked seq_lens
PaddedCollatePacked(flag, batch) ==
    [status |-> "ok",
     out |-> [tokens |-> Column(batch, "tokens"),
              labels |-> Column(batch, "labels"),
              input_pos |-> Column(batch, "input_pos"),
              mask |-> PackedBlockCausalMask(flag, Column(batch, "seq_lens"))]]

\* The arguments of a call; the ones a function does not take are left at
\* these values.
NoCall == [fn |-> "none", batch |-> <<>>, pad_direction |-> "right",
           keys_to_pad |-> <<>>, padding_idx |-> OneValue(0), ignore_idx |-> 0,
           batch_first |-> TRUE, flag |-> FALSE]

\* a call of left_pad_sequence(sequences, batch_first, padding_value)
CallLeftPadSequence ==
    /\ collate_in.fn = "left_pad_sequence" /\ collated = NoBatch
    /\ collated' = [status |-> "ok",
                    out |-> LeftPadSequence(collate_in.batch, collate_in.batch_first,
                                            collate_in.padding_idx.value)]
    /\ UNCHANGED collate_in

\* a call of padded_collate(batch, pad_direction, keys_to_pad, padding_idx)
CallPaddedCollate ==
    /\ collate_in.fn = "padded_collate" /\ collated = NoBatch
    /\ collated' = PaddedCollate(collate_in.batch, collate_in.pad_direction,
                                 collate_in.keys_to_pad, collate_in.padding_idx)
    /\ UNCHANGED collate_in

\* a call of padded_collate_sft(batch, device, padding_idx, ignore_idx)
CallPaddedCollateSft ==
    /\ collate_in.fn = "padded_collate_sft" /\ collated = NoBatch
    /\ collated' = PaddedCollateSft(collate_in.batch, collate_in.padding_idx.value,
                                    collate_in.ignore_idx)
    /\ UNCHANGED collate_in

\* a call of padded_collate_dpo(batch, padding_idx, ignore_idx)
CallPaddedCollateDpo ==
    /\ collate_in.fn = "padded_collate_dpo" /\ collated = NoBatch
    /\ collated' = PaddedCollateDpo(collate_in.batch, collate_in.padding_idx.value,
                                    collate_in.ignore_idx)
    /\ UNCHANGED collate_in

\* a call of padded_collate_packed(batch, device)
CallPaddedCollatePacked ==
    /\ collate_in.fn = "padded_collate_packed" /\ collated = NoBatch
    /\ collated' = PaddedCollatePacked(collate_in.flag, collate_in.batch)
    /\ UNCHANGED collate_in

\* The field names of the samples and the number that Elem gives each.
FieldNo(k) ==
    CASE k = "tokens" -> 1 [] k = "labels" -> 2 [] k = "input_pos" -> 3
      [] k = "chosen_input_ids" -> 4 [] k = "chosen_labels" -> 5
      [] k = "rejected_input_ids" -> 6 [] k = "rejected_labels" -> 7

\* a sample of padded_collate: the keys to pad hold sequences of the given
\* lengths, the other keys hold scalars
GenericSample(b, padded_keys, lens) ==
    [k \in {"tokens", "labels"} |->
        IF k \in padded_keys THEN SeqOf(b, FieldNo(k), lens[k])
        ELSE Elem(b, FieldNo(k), 0)]

\* a sample of the given fields, each a sequence of its given length
SeqSample(b, lens) == [k \in DOMAIN lens |-> SeqOf(b, FieldNo(k), lens[k])]

\* the lengths of the samples of a batch of 1..MaxCollateBatch samples, the
\* lengths of one sample drawn from LensSet
BatchLens(LensSet) == UNION {[1..n -> LensSet] : n \in 1..MaxCollateBatch}

LeftPadCalls ==
    {[NoCall EXCEPT !.fn = "left_pad_sequence",
                    !.batch = [b \in DOMAIN lens |-> SeqOf(b, 1, lens[b])],
                    !.batch_first = bf, !.padding_idx = OneValue(v)] :
       lens \in BatchLens(0..MaxFieldLen), bf \in BOOLEAN, v \in PadVals}

\* keys_to_pad, and the padding_idx arguments: one value, or a mapping over
\* any of the keys
KeysToPad == {<<>>, <<"tokens">>, <<"labels">>, <<"tokens", "labels">>}
PaddingIdxArgs ==
    {OneValue(v) : v \in PadVals} \cup
    {Mapping(d) : d \in UNION {[D -> PadVals] : D \in SUBSET {"tokens", "labels"}}}

PaddedCollateCalls(ks) ==
    {[NoCall EXCEPT !.fn = "padded_collate",
                    !.batch = [b \in DOMAIN lens |->
                                  GenericSample(b, Range(ks), lens[b])],
                    !.pad_direction = d, !.keys_to_pad = ks,
                    !.padding_idx = p] :
       lens \in BatchLens([Range(ks) -> 0..MaxFieldLen]),
       d \in {"left", "right", "oogabooga"}, p \in PaddingIdxArgs}

SftCalls ==
    {[NoCall EXCEPT !.fn = "padded_collate_sft",
                    !.batch = [b \in DOMAIN lens |-> SeqSample(b, lens[b])],
                    !.padding_idx = OneValue(p), !.ignore_idx = g] :
       lens \in BatchLens([{"tokens", "labels"} -> 0..MaxFieldLen]),
       p \in PadVals, g \in PadVals}

\* a sample of padded_collate_dpo: the labels of a response are as long as
\* its ids
DpoSample(b, lens) ==
    SeqSample(b, [k \in {"chosen_input_ids", "chosen_labels",
                         "rejected_input_ids", "rejected_labels"} |->
                     IF k \in {"chosen_input_ids", "chosen_labels"}
                     THEN lens[1] ELSE lens[2]])

DpoCalls ==
    {[NoCall EXCEPT !.fn = "padded_collate_dpo",
                    !.batch = [b \in DOMAIN lens |-> DpoSample(b, lens[b])],
                    !.padding_idx = OneValue(p), !.ignore_idx = g] :
       lens \in BatchLens((0..MaxFieldLen) \X (0..MaxFieldLen)),
       p \in PadVals, g \in PadVals}

\* a sample of padded_collate_packed: a pack of the length its seq_lens sum to
PackedSample(b, row) ==
    [k \in {"tokens", "labels", "input_pos", "seq_lens"} |->
        IF k = "seq_lens" THEN row ELSE SeqOf(b, FieldNo(k), SumSeq(row))]

PackedCalls ==
    {[NoCall EXCEPT !.fn = "padded_collate_packed", !.flag = f,
                    !.batch = [b \in DOMAIN sl |-> PackedSample(b, sl[b])]] :
       sl \in SeqLensInputs, f \in BOOLEAN}

InitCollate ==
    /\ \/ collate_in \in LeftPadCalls
       \/ \E ks \in KeysToPad : collate_in \in PaddedCollateCalls(ks)
       \/ collate_in \in SftCalls
       \/ collate_in \in DpoCalls
       \/ collate_in \in PackedCalls
    /\ collated = NoBatch
    /\ ctor = Idle /\ layer = Idle /\ fwd = Idle
    /\ supports_flex = Idle /\ seq_lens = Idle
    /\ document_ids = Idle /\ mask = Idle
    /\ text = Idle /\ enc = Idle /\ dec = Idle
    /\ sample = Idle /\ formatted = Idle
    /\ record = Idle /\ column_map = Idle /\ prompt = Idle
    /\ fs = Idle /\ proc = Idle /\ overlapped = Idle
    /\ split_in = Idle /\ pieces = Idle
    /\ attention_fn = Idle /\ call_args = Idle /\ kernel = Idle

\* the variables of the other components
not_collate_vars == <<attn_vars, mask_vars, tok_vars, chat_vars, alpaca_vars,
                      fixture_vars, split_vars, dispatch_vars>>

NextCollate ==
    \/ CallLeftPadSequence /\ UNCHANGED not_collate_vars
    \/ CallPaddedCollate /\ UNCHANGED not_collate_vars
    \/ CallPaddedCollateSft /\ UNCHANGED not_collate_vars
    \/ CallPaddedCollateDpo /\ UNCHANGED not_collate_vars
    \/ CallPaddedCollatePacked /\ UNCHANGED not_collate_vars

SpecCollate == InitCollate /\ [][NextCollate]_vars


(***************************************************************************)
(* Claims about collation, checked under SpecCollate.                      *)
(***************************************************************************)
\* the collation function fn was called and has returned or raised
Collated(fn) == collate_in.fn = fn /\ collated # NoBatch

\* width is the length of the longest of the sequences
IsBatchMax(width, sequences) ==
    /\ \A b \in DOMAIN sequences : Len(sequences[b]) <= width
    /\ \E b \in DOMAIN sequences : Len(sequences[b]) = width

\* row is orig followed by nothing but pad, width entries in all
RightPadded(row, orig, width, pad) ==
    /\ Len(row) = width
    /\ \A i \in 1..Len(orig) : row[i] = orig[i]
    /\ \A i \in Len(orig) + 1..width : row[i] = pad

\* row is orig preceded by nothing but pad, width entries in all
LeftPadded(row, orig, width, pad) ==
    /\ Len(row) = width
    /\ \A i \in 1..Len(orig) : row[width - Len(orig) + i] = orig[i]
    /\ \A i \in 1..width - Len(orig) : row[i] = pad

\* the padding value that the padding_idx argument gives key k
ArgPadValue(k) ==
    IF collate_in.padding_idx.is_mapping
    THEN collate_in.padding_idx.mapping[k]
    ELSE collate_in.padding_idx.value

\* C11: for every key of keys_to_pad, padded_collate returns one row per
\* sample, as long as the longest sequence of that key in the batch, holding
\* the sample's elements contiguously and in order and the key's padding
\* value in all other positions: these are at the end for "right" and at
\* the start for "left" (a sequence of the maximum length is unchanged);
\* left_pad_sequence pads at the start in the same way, the sample axis
\* leading when batch_first is set and second otherwise.
C11_PaddedToBatchMax ==
    /\ (Collated("padded_collate") /\ collated.status = "ok") =>
          \A k \in Range(collate_in.keys_to_pad) :
             LET rows == collated.out[k]
                 seqs == [b \in DOMAIN collate_in.batch |-> collate_in.batch[b][k]]
             IN /\ DOMAIN rows = DOMAIN collate_in.batch
                /\ IsBatchMax(Len(rows[1]), seqs)
                /\ \A b \in DOMAIN seqs :
                      IF collate_in.pad_direction = "right"
                      THEN RightPadded(rows[b], seqs[b], Len(rows[1]),
                                       ArgPadValue(k))
                      ELSE LeftPadded(rows[b], seqs[b], Len(rows[1]),
                                      ArgPadValue(k))
    /\ Collated("left_pad_sequence") =>
          LET seqs == collate_in.batch
              pad == collate_in.padding_idx.value
          IN \E width \in 0..MaxFieldLen + 1 :
                /\ IsBatchMax(width, seqs)
                /\ IF collate_in.batch_first
                   THEN /\ DOMAIN collated.out = DOMAIN seqs
                        /\ \A b \in DOMAIN seqs :
                              LeftPadded(collated.out[b], seqs[b], width, pad)
                   ELSE /\ DOMAIN collated.out = 1..width
                        /\ \A b \in DOMAIN seqs :
                              LeftPadded([c \in 1..width |-> collated.out[c][b]],
                                         seqs[b], width, pad)

\* C11 witness: padded_collate with "left" and a mapping has put the labels'
\* padding value before the one element of a sample's labels, the other
\* sample's labels being longer.
C11_Witness ==
    /\ Collated("padded_collate") /\ collated.status = "ok"
    /\ collate_in.pad_direction = "left"
    /\ collate_in.padding_idx.is_mapping
    /\ collate_in.keys_to_pad = <<"tokens", "labels">>
    /\ Len(collate_in.batch) = 2
    /\ Len(collate_in.batch[1]["labels"]) = 1
    /\ collated.out["labels"][1] =
          <<collate_in.padding_idx.mapping["labels"]>> \o collate_in.batch[1]["labels"]

\* C12: padded_collate fails with a ValueError, returning no batch, exactly
\* when keys_to_pad is empty, or pad_direction is neither "left" nor
\* "right", or padding_idx is a mapping and some key of keys_to_pad has no
\* padding value or some padding value is for a key outside keys_to_pad.
C12_Validation ==
    Collated("padded_collate") =>
       LET no_keys == Len(collate_in.keys_to_pad) = 0
           bad_direction == /\ collate_in.pad_direction # "left"
                            /\ collate_in.pad_direction # "right"
           missing_value ==
              \E i \in DOMAIN collate_in.keys_to_pad :
                 collate_in.keys_to_pad[i] \notin DOMAIN collate_in.padding_idx.mapping
           extra_value ==
              \E k \in DOMAIN collate_in.padding_idx.mapping :
                 \A i \in DOMAIN collate_in.keys_to_pad : collate_in.keys_to_pad[i] # k
           mismatch == /\ collate_in.padding_idx.is_mapping
                       /\ (missing_value \/ extra_value)
       IN IF no_keys \/ bad_direction \/ mismatch
          THEN collated.status = "ValueError" /\ collated.out = <<>>
          ELSE collated.status = "ok"

\* C12 witness: a mapping with a value for "labels", which is not a key to
\* pad, was rejected although every key to pad has a value.
C12_Witness ==
    /\ Collated("padded_collate")
    /\ collate_in.keys_to_pad = <<"tokens">>
    /\ collate_in.pad_direction = "right"
    /\ collate_in.padding_idx.is_mapping
    /\ DOMAIN collate_in.padding_idx.mapping = {"tokens", "labels"}
    /\ collated.status = "ValueError"

\* C13: the result of padded_collate has the key set of the samples, and
\* for every key outside keys_to_pad it holds the samples' values, unchanged
\* and in sample order.
C13_OtherKeysStacked ==
    (Collated("padded_collate") /\ collated.status = "ok") =>
       /\ \A b \in DOMAIN collate_in.batch :
             DOMAIN collated.out = DOMAIN collate_in.batch[b]
       /\ \A k \in DOMAIN collated.out \ Range(collate_in.keys_to_pad) :
             /\ DOMAIN collated.out[k] = DOMAIN collate_in.batch
             /\ \A b \in DOMAIN collate_in.batch :
                   collated.out[k][b] = collate_in.batch[b][k]

\* C13 witness: tokens padded, the scalar labels of two samples stacked.
C13_Witness ==
    /\ Collated("padded_collate") /\ collated.status = "ok"
    /\ collate_in.keys_to_pad = <<"tokens">>
    /\ Len(collate_in.batch) = 2
    /\ Len(collate_in.batch[1]["tokens"]) # Len(collate_in.batch[2]["tokens"])
    /\ collated.out["labels"] = <<Elem(1, 2, 0), Elem(2, 2, 0)>>


\* rows (from first on, one per sample) are the sequences, each right-padded
\* with pad to the sequences' own batch maximum
BlockPadded(rows, first, sequences, pad) ==
    \E width \in 0..MaxFieldLen :
       /\ IsBatchMax(width, sequences)
       /\ \A b \in DOMAIN sequences :
             RightPadded(rows[first + b], sequences[b], width, pad)

\* the positions of row r that were filled in after the len elements
PadPositions(rows, r, len) == {c \in DOMAIN rows[r] : c > len}

\* what C14 says of a batch: two results of 2N rows, the chosen block padded
\* to its own maximum before the rejected block padded to its own maximum,
\* input_ids with padding_idx and labels with ignore_idx, and ignore_idx in
\* labels exactly where input_ids holds padding
DpoAsClaimed ==
    LET batch == collate_in.batch
        N == Len(batch)
        field(k) == [b \in DOMAIN batch |-> batch[b][k]]
    IN /\ collated.status = "ok"
       /\ Len(collated.out.input_ids) = 2 * N
       /\ Len(collated.out.labels) = 2 * N
       /\ BlockPadded(collated.out.input_ids, 0, field("chosen_input_ids"),
                      collate_in.padding_idx.value)
       /\ BlockPadded(collated.out.input_ids, N, field("rejected_input_ids"),
                      collate_in.padding_idx.value)
       /\ BlockPadded(collated.out.labels, 0, field("chosen_labels"),
                      collate_in.ignore_idx)
       /\ BlockPadded(collated.out.labels, N, field("rejected_labels"),
                      collate_in.ignore_idx)
       /\ \A b \in DOMAIN batch :
             /\ PadPositions(collated.out.labels, b, Len(batch[b].chosen_labels))
                   = PadPositions(collated.out.input_ids, b,
                                  Len(batch[b].chosen_input_ids))
             /\ PadPositions(collated.out.labels, N + b,
                             Len(batch[b].rejected_labels))
                   = PadPositions(collated.out.input_ids, N + b,
                                  Len(batch[b].rejected_input_ids))

SameGroupMaximum ==
    \E width \in 0..MaxFieldLen :
       /\ IsBatchMax(width, [b \in DOMAIN collate_in.batch |->
                                collate_in.batch[b].chosen_input_ids])
       /\ IsBatchMax(width, [b \in DOMAIN collate_in.batch |->
                                collate_in.batch[b].rejected_input_ids])

C15_SftPadding ==
    Collated("padded_collate_sft") =>
       LET batch == collate_in.batch
           tokens == [b \in DOMAIN batch |-> batch[b].tokens]
           labels == [b \in DOMAIN batch |-> batch[b].labels]
       IN /\ collated.status = "ok"
          /\ DOMAIN collated.out = {"tokens", "labels"}
          /\ DOMAIN collated.out.tokens = DOMAIN batch
          /\ DOMAIN collated.out.labels = DOMAIN batch
          /\ BlockPadded(collated.out.tokens, 0, tokens, collate_in.padding_idx.value)
          /\ BlockPadded(collated.out.labels, 0, labels, collate_in.ignore_idx)
          /\ collate_in.padding_idx.value # collate_in.ignore_idx =>
                \A b \in DOMAIN batch :
                   /\ \A c \in PadPositions(collated.out.tokens, b, Len(tokens[b])) :
                         collated.out.tokens[b][c] # collate_in.ignore_idx
                   /\ \A c \in PadPositions(collated.out.labels, b, Len(labels[b])) :
                         collated.out.labels[b][c] # collate_in.padding_idx.value

\* C15 witness: the second of two samples has one token and one label, the
\* first two of each: its rows are the token then padding_idx, the label
\* then ignore_idx.
C15_Witness ==
    /\ Collated("padded_collate_sft")
    /\ Len(collate_in.batch) = 2
    /\ collate_in.padding_idx.value # collate_in.ignore_idx
    /\ collated.out.tokens[2] = <<Elem(2, 1, 1), collate_in.padding_idx.value>>
    /\ collated.out.labels[2] = <<Elem(2, 2, 1), collate_in.ignore_idx>>

\* the number (from 1) of the sub-sequence of a pack that holds position p
\* (from 0), for the pack's seq_lens row
DocumentOf(row, p) ==
    CHOOSE j \in 1..Len(row) :
       /\ SumSeq(SubSeq(row, 1, j - 1)) <= p
       /\ p < SumSeq(SubSeq(row, 1, j))

\* C16: padded_collate_packed returns tokens, labels and input_pos as the
\* samples' rows, unchanged and in sample order, and a mask over (batch,
\* pack length, pack length) that is true at (b, q, k) exactly when k <= q
\* and q and k lie in the same sub-sequence of sample b's seq_lens; when the
\* flag is clear the mask is the dense tensor create_block_causal_mask
\* returns for the stacked seq_lens.
C16_PackedCollate ==
    Collated("padded_collate_packed") =>
       LET batch == collate_in.batch
           N == Len(batch)
           L == Len(batch[1].tokens)
           sl == [b \in DOMAIN batch |-> batch[b].seq_lens]
       IN /\ collated.status = "ok"
          /\ DOMAIN collated.out = {"tokens", "labels", "input_pos", "mask"}
          /\ \A k \in {"tokens", "labels", "input_pos"} :
                /\ DOMAIN collated.out[k] = DOMAIN batch
                /\ \A b \in DOMAIN batch : collated.out[k][b] = batch[b][k]
          /\ collated.out.mask.shape = <<N, L, L>>
          /\ DOMAIN collated.out.mask.at = Idx3(<<N, L, L>>)
          /\ \A i \in Idx3(<<N, L, L>>) :
                collated.out.mask.at[i] =
                   (/\ i[3] <= i[2]
                    /\ DocumentOf(sl[i[1] + 1], i[2]) = DocumentOf(sl[i[1] + 1], i[3]))
          /\ ~collate_in.flag =>
                /\ collated.out.mask.type = "Tensor"
                /\ collated.out.mask = CreateBlockCausalMask(sl)

\* C16 witness: without flex-style masking, two packs of length 3, the
\* first with sub-sequences of lengths 2 and 1: a dense mask, true at
\* (0, 1, 0) inside the first sub-sequence, false at (0, 2, 1) across them.
C16_Witness ==
    /\ Collated("padded_collate_packed")
    /\ ~collate_in.flag
    /\ Len(collate_in.batch) = 2
    /\ collate_in.batch[1].seq_lens = <<2, 1>>
    /\ collated.out.tokens[2] = <<Elem(2, 1, 1), Elem(2, 1, 2), Elem(2, 1, 3)>>
    /\ collated.out.mask.type = "Tensor"
    /\ collated.out.mask.at[<<0, 1, 0>>]
    /\ ~collated.out.mask.at[<<0, 2, 1>>]


(***************************************************************************)
(* The fixture generators: finetune_1.py, finetune_2.py, finetune_3.py,    *)
(* cpt_1.py, mm_1.py, dpo_1.py, dpo_2.py                                   *)
(***************************************************************************)
\* Bound on the number of runs started, over all processes.
MaxRuns == 2

\* The scripts, and the processes that run them: two, which may run one
\* after the other or at the same time.
Generators == {"finetune_1", "finetune_2", "finetune_3", "cpt_1", "mm_1",
               "dpo_1", "dpo_2"}
Procs == {1, 2}

\* the name of the file a script opens under filepath
FileOf(g) ==
    CASE g = "finetune_1" -> "my_data.csv"
      [] g = "cpt_1" -> "my_data.txt"
      [] OTHER -> "my_data.json"

FixtureFiles == {"my_data.csv", "my_data.json", "my_data.txt"}

\* the number of entries of a script's data: records, or documents for cpt_1
NumEntries(g) ==
    CASE g \in {"finetune_1", "cpt_1", "mm_1"} -> 5
      [] g \in {"finetune_2", "finetune_3"} -> 4
      [] g \in {"dpo_1", "dpo_2"} -> 3

\* cpt_1.py line 7: torch.randint draws the documents anew in every run; the
\* draw is one of these. The other scripts' data is fixed: their draw is 0.
RandomDraws == {1, 2}
Draws(g) == IF g = "cpt_1" THEN RandomDraws ELSE {0}

\* what a run of script g writes to its file: entry i of the data as
\* <<g, i, draw>>
Data(g, draw) == [i \in 1..NumEntries(g) |-> <<g, i, draw>>]

\* the content a file had before any run: longer than any script's data
Stale == [i \in 1..6 |-> <<"other", i, 0>>]

\* A path is absent, a directory or a regular file; a regular file has a
\* content.
Absent == [kind |-> "absent", content |-> <<>>]
Dir == [kind |-> "dir", content |-> <<>>]
File(content) == [kind |-> "file", content |-> content]

\* Truncate keeping the old content, as open(path, 'a') does
Truncate_keep(old) == File(old.content)

\* open(path, 'w') of an absent path or a regular file: created or cut to
\* length 0
Truncate(old) == File(<<>>)

\* a buffered file's data reaching the file: written from offset 0 over
\* what the file holds by then
WriteAt0(old, data) ==
    File(data \o SubSeq(old.content, Len(data) + 1, Len(old.content)))

\* NeedsMkdir with the test inverted
NeedsMkdir_inverted(path) == path.kind # "absent"

\* dpo_2.py line 25 (and the same line of the other scripts):
\* if not os.path.exists(filepath)
NeedsMkdir(path) == path.kind = "absent"

\* os.mkdir(path): the error it raises, "" if none
MkdirError(parent, path) ==
    IF parent.kind = "file" THEN "NotADirectoryError"
    ELSE IF path.kind # "absent" THEN "FileExistsError"
    ELSE ""

\* open(path, 'w') and img.save(path): the error raised, "" if none
OpenError(parent, path) ==
    IF parent.kind = "file" THEN "NotADirectoryError"
    ELSE IF parent.kind = "absent" THEN "FileNotFoundError"
    ELSE IF path.kind = "dir" THEN "IsADirectoryError"
    ELSE ""

\* A process: the script it runs, its position in main(), the draw of its
\* data, the loop index of mm_1.py line 55, the error that ended it, the
\* number of runs it has started, whether this run has written its file,
\* and the data directory and fixture file as the run found them.
NoProc == [gen |-> "none", pc |-> "idle", draw |-> 0, i |-> 0, error |-> "",
           runs |-> 0, wrote |-> FALSE, found_data |-> Absent,
           found_file |-> Absent]

\* the process is inside main()
Running(p) == proc[p].pc \notin {"idle", "done", "failed"}

\* the exception propagates out of main(): the process ends
Raise(p, err) == [proc EXCEPT ![p].pc = "failed", ![p].error = err]

\* a process starts script g: the data is built (lines 5-21 of dpo_2.py) and
\* filepath computed (line 23)
Start(p, g, draw) ==
    /\ ~Running(p)
    /\ proc[1].runs + proc[2].runs < MaxRuns
    /\ draw \in Draws(g)
    /\ proc' = [proc EXCEPT ![p] = [gen |-> g, pc |-> "exists_data", draw |-> draw,
                                    i |-> 0, error |-> "", runs |-> @.runs + 1,
                                    wrote |-> FALSE, found_data |-> fs.data,
                                    found_file |-> fs.files[FileOf(g)]]]
    /\ overlapped' = [q \in Procs |->
                         IF q = p THEN \E o \in Procs \ {p} : Running(o)
                         ELSE overlapped[q] \/ Running(q)]
    /\ UNCHANGED fs

\* line 25: if not os.path.exists(filepath)
ExistsData(p) ==
    /\ proc[p].pc = "exists_data"
    /\ proc' = [proc EXCEPT ![p].pc =
                   IF NeedsMkdir(fs.data) THEN "mkdir_data"
                   ELSE IF proc[p].gen = "mm_1" THEN "exists_images" ELSE "open"]
    /\ UNCHANGED <<fs, overlapped>>

\* line 26: os.mkdir(filepath)
MkdirData(p) ==
    /\ proc[p].pc = "mkdir_data"
    /\ IF MkdirError(Dir, fs.data) # ""
       THEN /\ proc' = Raise(p, MkdirError(Dir, fs.data))
            /\ UNCHANGED fs
       ELSE /\ fs' = [fs EXCEPT !.data = Dir]
            /\ proc' = [proc EXCEPT ![p].pc =
                           IF proc[p].gen = "mm_1" THEN "exists_images" ELSE "open"]
    /\ UNCHANGED overlapped

\* mm_1.py line 48: if not os.path.exists(os.path.join(filepath, "images"))
ExistsImages(p) ==
    /\ proc[p].pc = "exists_images"
    /\ proc' = [proc EXCEPT ![p].pc =
                   IF fs.data.kind # "dir" \/ NeedsMkdir(fs.images)
                   THEN "mkdir_images" ELSE "open"]
    /\ UNCHANGED <<fs, overlapped>>

\* mm_1.py line 49: os.mkdir(os.path.join(filepath, "images"))
MkdirImages(p) ==
    /\ proc[p].pc = "mkdir_images"
    /\ IF MkdirError(fs.data, fs.images) # ""
       THEN /\ proc' = Raise(p, MkdirError(fs.data, fs.images))
            /\ UNCHANGED fs
       ELSE /\ fs' = [fs EXCEPT !.images = Dir]
            /\ proc' = [proc EXCEPT ![p].pc = "open"]
    /\ UNCHANGED overlapped

\* line 29: with open(os.path.join(filepath, "my_data.json"), 'w', newline='')
Open(p) ==
    /\ proc[p].pc = "open"
    /\ LET name == FileOf(proc[p].gen)
       IN IF OpenError(fs.data, fs.files[name]) # ""
          THEN /\ proc' = Raise(p, OpenError(fs.data, fs.files[name]))
               /\ UNCHANGED fs
          ELSE /\ fs' = [fs EXCEPT !.files[name] = Truncate(@)]
               /\ proc' = [proc EXCEPT ![p].pc = "dump"]
    /\ UNCHANGED overlapped

\* line 30: json.dump(data, file, indent=4) (csv rows, text lines) and the
\* end of the with block: the buffered data reaches the file at the close
Dump(p) ==
    /\ proc[p].pc = "dump"
    /\ LET name == FileOf(proc[p].gen)
       IN fs' = [fs EXCEPT !.files[name] =
                    WriteAt0(@, Data(proc[p].gen, proc[p].draw))]
    /\ proc' = [proc EXCEPT ![p].wrote = TRUE,
                            ![p].pc = IF proc[p].gen = "mm_1" THEN "save" ELSE "print"]
    /\ UNCHANGED overlapped

\* mm_1.py lines 55-57: one iteration of for i in range(5): a new image is
\* saved as images/test_{i}.jpg; the loop ends after the fifth
SaveImage(p) ==
    /\ proc[p].pc = "save"
    /\ IF proc[p].i >= NumEntries("mm_1")
       THEN /\ proc' = [proc EXCEPT ![p].pc = "print"]
            /\ UNCHANGED fs
       ELSE IF OpenError(fs.images, Absent) # ""
            THEN /\ proc' = Raise(p, OpenError(fs.images, Absent))
                 /\ UNCHANGED fs
            ELSE /\ fs' = [fs EXCEPT !.saved = @ \cup {proc[p].i}]
                 /\ proc' = [proc EXCEPT ![p].i = @ + 1]
    /\ UNCHANGED overlapped

\* line 32: print(f"Data has been written to {filepath}"); main() returns
Finish(p) ==
    /\ proc[p].pc = "print"
    /\ proc' = [proc EXCEPT ![p].pc = "done"]
    /\ UNCHANGED <<fs, overlapped>>

\* The file system before any run: no data path; a regular file named data;
\* or a data directory in which the fixture files are absent or hold other
\* content, with or without an images directory.
InitFixture ==
    /\ \/ fs = [data |-> Absent, images |-> Absent, saved |-> {},
                files |-> [n \in FixtureFiles |-> Absent]]
       \/ fs = [data |-> File(<<>>), images |-> Absent, saved |-> {},
                files |-> [n \in FixtureFiles |-> Absent]]
       \/ \E old \in {Absent, File(Stale)}, images \in {Absent, Dir} :
             fs = [data |-> Dir, images |-> images, saved |-> {},
                   files |-> [n \in FixtureFiles |-> old]]
    /\ proc = [p \in Procs |-> NoProc]
    /\ overlapped = [p \in Procs |-> FALSE]
    /\ ctor = Idle /\ layer = Idle /\ fwd = Idle
    /\ supports_flex = Idle /\ seq_lens = Idle
    /\ document_ids = Idle /\ mask = Idle
    /\ text = Idle /\ enc = Idle /\ dec = Idle
    /\ sample = Idle /\ formatted = Idle
    /\ record = Idle /\ column_map = Idle /\ prompt = Idle
    /\ collate_in = Idle /\ collated = Idle
    /\ split_in = Idle /\ pieces = Idle
    /\ attention_fn = Idle /\ call_args = Idle /\ kernel = Idle

\* the variables of the other components
not_fixture_vars == <<attn_vars, mask_vars, tok_vars, chat_vars, alpaca_vars,
                      collate_vars, split_vars, dispatch_vars>>

NextFixture ==
    \/ \E p \in Procs, g \in Generators, draw \in {0} \cup RandomDraws :
          Start(p, g, draw) /\ UNCHANGED not_fixture_vars
    \/ \E p \in Procs : ExistsData(p) /\ UNCHANGED not_fixture_vars
    \/ \E p \in Procs : MkdirData(p) /\ UNCHANGED not_fixture_vars
    \/ \E p \in Procs : ExistsImages(p) /\ UNCHANGED not_fixture_vars
    \/ \E p \in Procs : MkdirImages(p) /\ UNCHANGED not_fixture_vars
    \/ \E p \in Procs : Open(p) /\ UNCHANGED not_fixture_vars
    \/ \E p \in Procs : Dump(p) /\ UNCHANGED not_fixture_vars
    \/ \E p \in Procs : SaveImage(p) /\ UNCHANGED not_fixture_vars
    \/ \E p \in Procs : Finish(p) /\ UNCHANGED not_fixture_vars

SpecFixture == InitFixture /\ [][NextFixture]_vars


(***************************************************************************)
(* Claims about the fixture generators, checked under SpecFixture.         *)
(***************************************************************************)
\* the run of process p ran alone: no other process was inside main()
\* between its start and now
RanAlone(p) == ~overlapped[p]

\* process p has just returned from main() after running alone: the data
\* directory exists and the script's file holds exactly the run's data
LeavesFixture(p) ==
    (proc[p].pc = "done" /\ RanAlone(p)) =>
       /\ fs.data = Dir
       /\ fs.files[FileOf(proc[p].gen)] = File(Data(proc[p].gen, proc[p].draw))
       /\ proc[p].gen = "mm_1" => fs.images = Dir

\* a run that ran alone and found the data path absent or a directory has
\* not raised
DoesNotRaise(p) ==
    (proc[p].pc = "failed" /\ RanAlone(p)) => proc[p].found_data.kind = "file"

\* C17: a generator that runs alone to completion leaves the data directory
\* existing (created when missing, left in place when present) and its file
\* holding exactly its data, whatever the file held before; a directory that
\* exists is never removed; a run that finds the data path missing or a
\* directory does not raise, so neither does a second run in succession,
\* which for the scripts with fixed data leaves the content of the first.
C17_RunLeavesFixture ==
    [][/\ \A p \in Procs :
             (proc[p].pc # "done" /\ proc'[p].pc = "done") => LeavesFixture(p)'
       /\ \A p \in Procs : DoesNotRaise(p)'
       /\ fs.data = Dir => fs'.data = Dir
       /\ fs.images = Dir => fs'.images = Dir]_vars

\* C17 witness: dpo_2.py run twice in succession: the first run found no
\* data directory, the second found the directory and the first run's file,
\* and has returned leaving the same content.
C17_Witness ==
    /\ proc[1].gen = "dpo_2" /\ proc[1].pc = "done" /\ RanAlone(1)
    /\ proc[1].found_data = Absent
    /\ proc[2].gen = "dpo_2" /\ proc[2].pc = "done" /\ RanAlone(2)
    /\ proc[2].found_data = Dir
    /\ proc[2].found_file = File(Data("dpo_2", 0))
    /\ fs.files["my_data.json"] = proc[2].found_file

\* C18: a process ends in mkdir's FileExistsError only if its run overlapped
\* another's (runs that do not overlap never fail so), the directory then
\* exists, and the process has not written its fixture file.
C18_MkdirRace ==
    \A p \in Procs :
       (proc[p].pc = "failed" /\ proc[p].error = "FileExistsError") =>
          /\ ~RanAlone(p)
          /\ fs.data = Dir
          /\ ~proc[p].wrote

\* C18 witness: finetune_1.py and dpo_1.py both found the data directory
\* absent; dpo_1.py created it and wrote its file; the mkdir of finetune_1.py
\* then failed, and my_data.csv was never created.
C18_Witness ==
    /\ proc[1].gen = "finetune_1" /\ proc[2].gen = "dpo_1"
    /\ proc[1].found_data = Absent /\ proc[2].found_data = Absent
    /\ proc[2].pc = "done"
    /\ proc[1].pc = "failed" /\ proc[1].error = "FileExistsError"
    /\ fs.data = Dir
    /\ fs.files["my_data.json"] = File(Data("dpo_1", 0))
    /\ fs.files["my_data.csv"] = Absent

\* mm_1.py lines 8, 15, 22, 29, 36: record i (from 1) of the data has
\* "images": "test_{i}.jpg"; the number in the name a written entry refers to
ImageRef(entry) == entry[2]

\* the numbers of the image names that the records of a file refer to
Referenced(content) == {ImageRef(content[k]) : k \in DOMAIN content}

\* C27: when a run of the multimodal generator completes, the image names
\* that the records of my_data.json refer to are the names of the images
\* saved under the images directory: every referenced image was saved and
\* every saved image is referenced.
C27_ReferencedAreSaved ==
    [][\A p \in Procs :
          (proc[p].pc # "done" /\ proc'[p].pc = "done"
           /\ proc'[p].gen = "mm_1" /\ RanAlone(p)') =>
             Referenced(fs'.files["my_data.json"].content) = fs'.saved]_vars

(***************************************************************************)
(* torchtune/modules/attention_utils.py: _sdpa_or_flex_attention           *)
(***************************************************************************)
\* mask: Optional[_MaskType] = None
NoneMask == [type |-> "None", shape |-> <<>>, at |-> <<>>]

\* dropout_p is a float, in tenths as attn_dropout
DropoutArgs == {0, 5}

\* IsBlockMask accepting every mask that is not None
IsBlockMask_notNone(mask_arg) == mask_arg # NoneMask

\* line 167: isinstance(mask, BlockMask)
IsBlockMask(mask_arg) == mask_arg.type = "BlockMask"

\* lines 183 and 207: mask[:, None, :, :], shape [b, 1, s, s]
InsertHeadAxis(mask_arg) ==
    LET sh == <<mask_arg.shape[1], 1, mask_arg.shape[2], mask_arg.shape[3]>>
    IN [type |-> mask_arg.type,
        shape |-> sh,
        at |-> [i \in Idx4(sh) |-> mask_arg.at[<<i[1], i[3], i[4]>>]]]

\* lines 173-178: flex_attention_compiled(q, k, v, block_mask=mask)
FlexAttentionCompiled(q, k, v, mask_arg) ==
    [fn |-> "flex_attention", q |-> q, k |-> k, v |-> v,
     kwargs |-> [block_mask |-> mask_arg]]

\* lines 182-193 and 206-217: the head axis is inserted into a mask that is
\* not None, then nn.functional.scaled_dot_product_attention(q, k, v,
\* attn_mask=mask, dropout_p=dropout_p, is_causal=is_causal)
ScaledDotProductAttention(q, k, v, mask_arg, dropout_p, is_causal) ==
    LET attn_mask == IF mask_arg # NoneMask THEN InsertHeadAxis(mask_arg) ELSE mask_arg
    IN [fn |-> "scaled_dot_product_attention", q |-> q, k |-> k, v |-> v,
        kwargs |-> [attn_mask |-> attn_mask, dropout_p |-> dropout_p,
                    is_causal |-> is_causal]]

\* lines 152-193: _attention_call as defined when the flag is set
AttentionCallFlex(q, k, v, mask_arg, dropout_p, is_causal) ==
    IF IsBlockMask(mask_arg)
    THEN FlexAttentionCompiled(q, k, v, mask_arg)
    ELSE ScaledDotProductAttention(q, k, v, mask_arg, dropout_p, is_causal)

\* lines 197-217: _attention_call as defined when the flag is clear
AttentionCallSdpa(q, k, v, mask_arg, dropout_p, is_causal) ==
    ScaledDotProductAttention(q, k, v, mask_arg, dropout_p, is_causal)

NoKernel == [fn |-> "none", q |-> "", k |-> "", v |-> "", kwargs |-> <<>>]

\* lines 149-219: _sdpa_or_flex_attention() returns the _attention_call of
\* the branch the flag selects
SdpaOrFlexAttention ==
    /\ attention_fn = "none"
    /\ attention_fn' = IF supports_flex THEN "flex_or_sdpa" ELSE "sdpa"
    /\ UNCHANGED <<supports_flex, call_args, kernel>>

\* a call of the returned callable
AttentionCall ==
    /\ attention_fn # "none"
    /\ kernel = NoKernel
    /\ LET a == call_args
       IN kernel' =
             IF attention_fn = "flex_or_sdpa"
             THEN AttentionCallFlex(a.q, a.k, a.v, a.mask, a.dropout_p, a.is_causal)
             ELSE AttentionCallSdpa(a.q, a.k, a.v, a.mask, a.dropout_p, a.is_causal)
    /\ UNCHANGED <<supports_flex, call_args, attention_fn>>

\* seq_lens of one sample
OneSampleSeqLens ==
    UNION {[1..1 -> Rows(n, L)] : n \in 1..MaxDocs, L \in 0..MaxPackLen}

\* the masks a caller can hold: None, a dense boolean tensor, and, where the
\* flag is set (lines 21-28), a BlockMask
MaskArgs(flag) ==
    {NoneMask}
    \cup {CreateBlockCausalMask(sl) : sl \in OneSampleSeqLens}
    \cup (IF flag THEN {PackedBlockCausalMask(flag, sl) : sl \in OneSampleSeqLens}
          ELSE {})

InitDispatch ==
    /\ supports_flex \in BOOLEAN
    /\ call_args \in [q : {"q"}, k : {"k"}, v : {"v"},
                      mask : MaskArgs(supports_flex),
                      dropout_p : DropoutArgs, is_causal : BOOLEAN]
    /\ attention_fn = "none"
    /\ kernel = NoKernel
    /\ ctor = Idle /\ layer = Idle /\ fwd = Idle
    /\ seq_lens = Idle /\ document_ids = Idle /\ mask = Idle
    /\ text = Idle /\ enc = Idle /\ dec = Idle
    /\ sample = Idle /\ formatted = Idle
    /\ record = Idle /\ column_map = Idle /\ prompt = Idle
    /\ collate_in = Idle /\ collated = Idle
    /\ fs = Idle /\ proc = Idle /\ overlapped = Idle
    /\ split_in = Idle /\ pieces = Idle

\* the variables that a dispatch step leaves alone
not_dispatch_vars == <<attn_vars, seq_lens, document_ids, mask, tok_vars, chat_vars, alpaca_vars, collate_vars, fixture_vars, split_vars>>

NextDispatch ==
    \/ SdpaOrFlexAttention /\ UNCHANGED not_dispatch_vars
    \/ AttentionCall /\ UNCHANGED not_dispatch_vars

SpecDispatch == InitDispatch /\ [][NextDispatch]_vars

(***************************************************************************)
(* Claims about the dispatch, checked under SpecDispatch.                  *)
(***************************************************************************)
\* C21: the callable returned by _sdpa_or_flex_attention invokes the flex
\* kernel if and only if the flag is set and the mask is a BlockMask, and
\* then passes the mask as block_mask and neither dropout_p nor is_causal;
\* in every other case it invokes scaled_dot_product_attention with the
\* caller's dropout_p and is_causal, with the mask given a singleton head
\* axis when there is a mask and with no mask when there is none.
C21_Dispatch ==
    kernel # NoKernel =>
        LET a == call_args
            flex == supports_flex /\ a.mask.type = "BlockMask"
            kw == kernel.kwargs
        IN /\ kernel.q = a.q /\ kernel.k = a.k /\ kernel.v = a.v
           /\ (kernel.fn = "flex_attention") <=> flex
           /\ (kernel.fn = "scaled_dot_product_attention") <=> ~flex
           /\ flex => /\ DOMAIN kw = {"block_mask"}
                      /\ kw.block_mask = a.mask
           /\ ~flex =>
                 /\ DOMAIN kw = {"attn_mask", "dropout_p", "is_causal"}
                 /\ kw.dropout_p = a.dropout_p
                 /\ kw.is_causal = a.is_causal
                 /\ a.mask = NoneMask => kw.attn_mask = NoneMask
                 /\ a.mask # NoneMask =>
                       LET sh == a.mask.shape
                       IN /\ kw.attn_mask.shape = <<sh[1], 1, sh[2], sh[3]>>
                          /\ DOMAIN kw.attn_mask.at = Idx4(kw.attn_mask.shape)
                          /\ \A i \in Idx3(sh) :
                                kw.attn_mask.at[<<i[1], 0, i[2], i[3]>>] = a.mask.at[i]

\* C21 witness: with the flag set, a BlockMask of two documents and a
\* non-zero dropout_p with is_causal set went to the flex kernel.
C21_Witness ==
    /\ supports_flex
    /\ kernel.fn = "flex_attention"
    /\ call_args.mask.type = "BlockMask"
    /\ call_args.mask.shape = <<1, 3, 3>>
    /\ ~call_args.mask.at[<<0, 2, 0>>]
    /\ call_args.dropout_p = 5 /\ call_args.is_causal

\* a dense mask, with the flag set, went to scaled_dot_product_attention
\* with a head axis inserted
C21_DenseReached ==
    /\ supports_flex
    /\ kernel.fn = "scaled_dot_product_attention"
    /\ call_args.mask.type = "Tensor"
    /\ kernel.kwargs.attn_mask.shape = <<1, 1, 2, 2>>

====
